---- MODULE Spec2Model ----
(***************************************************************************)
(* Model of the letterboxd_scraper pagination-and-aggregation engine:      *)
(*   - FilmSearch.__call__            (film_search.py)                     *)
(*   - UserRated.__scrape_rated       (user_and_network.py)                *)
(*   - LetterboxdList.entries, Studio.entries, MyList, MyMasterList        *)
(*                                    (list_maker.py)                      *)
(*   - the rating statistics of FilmInfo (film_info.py)                    *)
(* Every network request is one step that either returns the page or       *)
(* raises the error of SESSION.request (session.py).                       *)
(***************************************************************************)
EXTENDS Integers, Sequences, FiniteSets, TLC

VARIABLES scenario, fs, ur, le, st, ml, fi

vars == <<scenario, fs, ur, le, st, ml, fi>>

(***************************************************************************)
(* Bounds of the model                                                     *)
(***************************************************************************)
MaxStartPage == 8      \* start_page is drawn from 1..MaxStartPage
MaxPageLimit == 2      \* page_limit is None or drawn from 0..MaxPageLimit
MaxRatedFilms == 38    \* films a user has rated: 0..MaxRatedFilms
MaxLimit == 37         \* limit of UserRated.__call__: 0..MaxLimit
MaxRatedPageNum == 5   \* cap on page_num in __scrape_rated's loop
MaxListPageNum == 4    \* cap on i in LetterboxdList.entries' loop
MaxStudioPages == 3    \* pages of a studio: 1..MaxStudioPages
StudioPerPage == 2     \* films the site shows on a studio page
MaxKey == 3            \* film ids of list entries: 1..MaxKey
MaxLen == 2            \* elements in the arguments of one call: 0..MaxLen
BigRun == 27           \* entries of a long list: film ids 1..BigRun
MaxRuns == 2           \* master updates run one after another on a list

\* inputs that are drawn from explicit sets
NumFilmsChoices == {0, 71, 72, 1750, 1900}   \* films a search reports
PercentChoices == {0, 28, 100}               \* percent of FilmSearch.__call__
ListSizeChoices == {0, 100, 101, 199, 200}   \* entries of a list (reported / served)
Errors == {"HTTPError", "LetterboxdException"}

(***************************************************************************)
(* Small helpers                                                           *)
(***************************************************************************)
Min(a, b) == IF a <= b THEN a ELSE b
Max(a, b) == IF a >= b THEN a ELSE b

Range(s) == {s[k] : k \in 1..Len(s)}

\* The exact mathematical ceiling of a/b (b > 0, a >= 0); used by the claims.
CeilDiv(a, b) == (a + b - 1) \div b

\* s[1..n], the Python slice s[:n] for 0 <= n.
Take(s, n) == SubSeq(s, 1, Min(n, Len(s)))

RECURSIVE Flatten(_)
Flatten(ss) == IF ss = <<>> THEN <<>> ELSE Head(ss) \o Flatten(Tail(ss))

(***************************************************************************)
(* Python float arithmetic (IEEE-754 binary64, round-to-nearest-even).     *)
(* A float is [m |-> bits, e |-> exponent]: the bits m (most significant   *)
(* first, at most 53 of them, the first one 1) read as an integer times    *)
(* 2^e.  Zero is [m |-> <<>>, e |-> 0].                                    *)
(***************************************************************************)
MantissaBits == 53
LimbBits == 15
LimbBase == 32768

\* number of binary digits of n (0 <= n < 2^30)
BitLen(n) == IF n = 0 THEN 0 ELSE CHOOSE L \in 1..30 : 2^(L-1) <= n /\ n < 2^L

\* binary digits of n, most significant first, without leading zeros
IntBits(n) == [i \in 1..BitLen(n) |-> (n \div 2^(BitLen(n) - i)) % 2]

\* the integer a bit string of at most 30 bits stands for
RECURSIVE BitsToInt(_)
BitsToInt(b) ==
    IF Len(b) = 0 THEN 0
    ELSE IF Len(b) = 1 THEN b[1]
    ELSE LET h == Len(b) \div 2
         IN  BitsToInt(SubSeq(b, 1, h)) * 2^(Len(b) - h) + BitsToInt(SubSeq(b, h + 1, Len(b)))

\* the bit string + 1 (one bit longer when it was all ones)
IncBits(b) ==
    IF \A k \in 1..Len(b) : b[k] = 1 THEN <<1>> \o [k \in 1..Len(b) |-> 0]
    ELSE LET z == CHOOSE k \in 1..Len(b) : b[k] = 0 /\ \A j \in (k+1)..Len(b) : b[j] = 1
         IN  [k \in 1..Len(b) |-> IF k < z THEN b[k] ELSE IF k = z THEN 1 ELSE 0]

\* the bits of a sequence of limbs (digits in base 2^15), most significant first
LimbsToBits(limbs) ==
    [i \in 1..(LimbBits * Len(limbs)) |->
        (limbs[(i - 1) \div LimbBits + 1] \div 2^(LimbBits - 1 - ((i - 1) % LimbBits))) % 2]

\* a bit string as limbs, zero-extended on the left to whole limbs
BitsToLimbs(b) ==
    LET n   == (Len(b) + LimbBits - 1) \div LimbBits
        pad == n * LimbBits - Len(b)
        ext == [k \in 1..pad |-> 0] \o b
    IN  [j \in 1..n |-> BitsToInt(SubSeq(ext, (j - 1) * LimbBits + 1, j * LimbBits))]

\* long division: the first n limbs of the fraction r/b (0 <= r < b < 2^15)
RECURSIVE FracLimbs(_, _, _)
FracLimbs(r, b, n) ==
    IF n = 0 THEN <<>>
    ELSE <<(r * LimbBase) \div b>> \o FracLimbs((r * LimbBase) % b, b, n - 1)

\* the remainder left after those n limbs
RECURSIVE FracRem(_, _, _)
FracRem(r, b, n) == IF n = 0 THEN r ELSE FracRem((r * LimbBase) % b, b, n - 1)

FirstOne(b) == IF \E k \in 1..Len(b) : b[k] = 1
               THEN CHOOSE k \in 1..Len(b) : b[k] = 1 /\ \A j \in 1..(k-1) : b[j] = 0
               ELSE 0

\* Round the bit string `stream`, whose last bit has weight 2^lastExp and which
\* is followed by a non-zero tail iff `tail`, to 53 significant bits.
RoundBits(stream, lastExp, tail) ==
    LET s == FirstOne(stream)
        n == Len(stream)
    IN  IF s = 0 THEN [m |-> <<>>, e |-> 0]
        ELSE IF n - s + 1 <= MantissaBits
             THEN [m |-> SubSeq(stream, s, n), e |-> lastExp]
        ELSE LET keep   == SubSeq(stream, s, s + MantissaBits - 1)
                 guard  == stream[s + MantissaBits]
                 sticky == tail \/ \E k \in (s + MantissaBits + 1)..n : stream[k] = 1
                 up     == guard = 1 /\ (sticky \/ keep[MantissaBits] = 1)
                 e0     == lastExp + (n - (s + MantissaBits - 1))
                 inc    == IncBits(keep)
             IN  IF ~up THEN [m |-> keep, e |-> e0]
                 ELSE IF Len(inc) > MantissaBits
                      THEN [m |-> SubSeq(inc, 1, MantissaBits), e |-> e0 + 1]
                      ELSE [m |-> inc, e |-> e0]

\* a / b for Python ints 0 <= a < 2^30, 0 < b < 2^15: the correctly rounded
\* quotient (five fraction limbs hold the 53 bits, the guard bit and the
\* leading zeros of a/b >= 2^-15).
PyTrueDiv(a, b) ==
    LET nlimbs == 5
    IN  RoundBits(IntBits(a \div b) \o LimbsToBits(FracLimbs(a % b, b, nlimbs)),
                  0 - nlimbs * LimbBits,
                  FracRem(a % b, b, nlimbs) # 0)

\* limbs of (limbs[1..k] * n + carry), for 0 <= n < 2^15
RECURSIVE MulLimbs(_, _, _, _)
MulLimbs(limbs, n, k, carry) ==
    IF k = 0 THEN <<carry>>
    ELSE Append(MulLimbs(limbs, n, k - 1, (limbs[k] * n + carry) \div LimbBase),
                (limbs[k] * n + carry) % LimbBase)

\* n * x for a Python int 0 <= n < 2^15 and a float x: the exact product, rounded.
PyMulIntFloat(n, x) ==
    IF n = 0 \/ x.m = <<>> THEN [m |-> <<>>, e |-> 0]
    ELSE LET limbs == BitsToLimbs(x.m)
         IN  RoundBits(LimbsToBits(MulLimbs(limbs, n, Len(limbs), 0)), x.e, FALSE)

\* math.ceil(x) for a float x >= 0 of moderate size
PyCeil(x) ==
    IF x.m = <<>> THEN 0
    ELSE IF x.e >= 0 THEN BitsToInt(x.m \o [k \in 1..x.e |-> 0])
    ELSE LET cut == Len(x.m) + x.e       \* number of integer bits
         IN  IF cut <= 0 THEN 1
             ELSE BitsToInt(SubSeq(x.m, 1, cut))
                  + (IF \E k \in (cut + 1)..Len(x.m) : x.m[k] = 1 THEN 1 ELSE 0)

(***************************************************************************)
(* The site, as the collectors see it                                      *)
(***************************************************************************)
FilmsPerSearchPage == 72
FilmsPerRatedPage == 18
EntriesPerListPage == 100
BatchSize == 25

\* ids first..last (empty when last < first)
IdRun(first, last) == [k \in 1..(last - first + 1) |-> first + k - 1]

\* page p of a listing of `total` items shown `per` to a page
SitePage(total, per, p) == IdRun((p - 1) * per + 1, Min(p * per, total))

\* SESSION.request either returns the response or raises (raise_for_status,
\* get_html_response_dict); the collectors see the error as it is raised.
Idle == [pc |-> "idle"]

(***************************************************************************)
(* FilmSearch.__call__                                                     *)
(***************************************************************************)
\* FilmSearch.num_pages: the page count derived from the reported film count
NumPages(numFilms) == IF numFilms = 0 THEN 0 ELSE numFilms \div FilmsPerSearchPage + 1

\* ceil(self.num_pages * (percent/100))
AvailablePages(total, percent) == PyCeil(PyMulIntFloat(total, PyTrueDiv(percent, 100)))

\* min(start_page + page_limit, num_pages+1) if page_limit else num_pages+1
EndPage(start_page, hasLimit, page_limit, num_pages) ==
    IF hasLimit /\ page_limit # 0
    THEN Min(start_page + page_limit, num_pages + 1)
    ELSE num_pages + 1

SearchInit ==
    \E nf \in NumFilmsChoices, sp \in 1..MaxStartPage, hl \in BOOLEAN,
       pl \in 0..MaxPageLimit, pc \in PercentChoices :
        /\ (~hl => pl = 0)
        /\ fs = [pc |-> "call", numFilms |-> nf, startPage |-> sp, hasLimit |-> hl,
                 page_limit |-> pl, percent |-> pc, start_page |-> sp,
                 num_pages |-> 0, end_page |-> 0, end |-> 0, last_scrape |-> FALSE,
                 i |-> 0, film_data |-> <<>>, requests |-> <<>>, failure |-> "none", error |-> "none",
                 result |-> <<>>]

\* lines 115-126: the count probe went through
SearchProbeOk ==
    /\ scenario = "search" /\ fs.pc = "call"
    /\ LET np == AvailablePages(NumPages(fs.numFilms), fs.percent)
       IN  fs' = IF fs.start_page > np
                 THEN [fs EXCEPT !.pc = "done", !.num_pages = np, !.result = <<>>,
                                 !.requests = Append(@, 0)]
                 ELSE [fs EXCEPT !.pc = "batch", !.num_pages = np,
                                 !.end_page = EndPage(fs.start_page, fs.hasLimit,
                                                      fs.page_limit, np),
                                 !.requests = Append(@, 0)]
    /\ UNCHANGED <<scenario, ur, le, st, ml, fi>>

\* line 188 raises
SearchProbeFail ==
    /\ scenario = "search" /\ fs.pc = "call"
    /\ \E e \in Errors :
         fs' = [fs EXCEPT !.pc = "raised", !.failure = e, !.error = e, !.requests = Append(@, 0)]
    /\ UNCHANGED <<scenario, ur, le, st, ml, fi>>

\* lines 139-144: the bounds of the next batch
SearchBatch ==
    /\ scenario = "search" /\ fs.pc = "batch"
    /\ fs' = IF fs.end_page <= fs.start_page + BatchSize
             THEN [fs EXCEPT !.pc = "scrape", !.last_scrape = TRUE,
                             !.end = fs.end_page, !.i = fs.start_page]
             ELSE [fs EXCEPT !.pc = "scrape", !.last_scrape = FALSE,
                             !.end = fs.start_page + BatchSize, !.i = fs.start_page]
    /\ UNCHANGED <<scenario, ur, le, st, ml, fi>>

\* line 146, one element of the comprehension: scrape_page(i) returns
SearchScrapeOk ==
    /\ scenario = "search" /\ fs.pc = "scrape" /\ fs.i < fs.end
    /\ fs' = [fs EXCEPT !.film_data = @ \o SitePage(fs.numFilms, FilmsPerSearchPage, fs.i),
                        !.requests = Append(@, fs.i),
                        !.i = @ + 1]
    /\ UNCHANGED <<scenario, ur, le, st, ml, fi>>

\* a collector that swallowed the failed fetch and returned what it had
SearchScrapeFailPartial ==
    /\ scenario = "search" /\ fs.pc = "scrape" /\ fs.i < fs.end
    /\ \E e \in Errors :
         fs' = [fs EXCEPT !.pc = "done", !.failure = e, !.result = fs.film_data,
                          !.requests = Append(@, fs.i)]
    /\ UNCHANGED <<scenario, ur, le, st, ml, fi>>

\* line 146: scrape_page(i) raises
SearchScrapeFail ==
    /\ scenario = "search" /\ fs.pc = "scrape" /\ fs.i < fs.end
    /\ \E e \in Errors :
         fs' = [fs EXCEPT !.pc = "raised", !.failure = e, !.error = e, !.requests = Append(@, fs.i)]
    /\ UNCHANGED <<scenario, ur, le, st, ml, fi>>

\* a loop whose next batch starts on the last page of the batch before
SearchBatchEndOverlap ==
    /\ scenario = "search" /\ fs.pc = "scrape" /\ fs.i >= fs.end
    /\ fs' = IF fs.last_scrape
             THEN [fs EXCEPT !.pc = "done", !.result = fs.film_data]
             ELSE [fs EXCEPT !.pc = "batch", !.start_page = @ + BatchSize - 1]
    /\ UNCHANGED <<scenario, ur, le, st, ml, fi>>

\* lines 148-152: the batch is through
SearchBatchEnd ==
    /\ scenario = "search" /\ fs.pc = "scrape" /\ fs.i >= fs.end
    /\ fs' = IF fs.last_scrape
             THEN [fs EXCEPT !.pc = "done", !.result = fs.film_data]
             ELSE [fs EXCEPT !.pc = "batch", !.start_page = @ + BatchSize]
    /\ UNCHANGED <<scenario, ur, le, st, ml, fi>>

(***************************************************************************)
(* UserRated.__scrape_rated                                                *)
(***************************************************************************)
\* UserRated.__get_num_pages: the last pagination link, 1 when there is none
RatedNumPages(total) == Max(1, CeilDiv(total, FilmsPerRatedPage))

\* end_page = min(ceil(limit/18), num_pages)
RatedEndPage(limit, num_pages) ==
    Min(PyCeil(PyTrueDiv(limit, FilmsPerRatedPage)), num_pages)

\* a return that forgot the slice
RatedResultUncut(film_ids, limit) == film_ids

\* film_ids if len(film_ids) < limit else film_ids[:limit]
RatedResult(film_ids, limit) ==
    IF Len(film_ids) < limit THEN film_ids ELSE Take(film_ids, limit)

RatedInit ==
    \E total \in 0..MaxRatedFilms, limit \in 0..MaxLimit :
        ur = [pc |-> "call", total |-> total, limit |-> limit, page_num |-> 1,
              num_pages |-> 0, end_page |-> 0, soup |-> <<>>, film_ids |-> <<>>,
              requests |-> <<>>, failure |-> "none", error |-> "none", result |-> <<>>]

\* lines 256-263: page 1 arrives
RatedFirstOk ==
    /\ scenario = "rated" /\ ur.pc = "call"
    /\ ur' = [ur EXCEPT !.pc = "loop",
                        !.requests = Append(@, 1),
                        !.soup = SitePage(ur.total, FilmsPerRatedPage, 1),
                        !.num_pages = RatedNumPages(ur.total),
                        !.end_page = RatedEndPage(ur.limit, RatedNumPages(ur.total))]
    /\ UNCHANGED <<scenario, fs, le, st, ml, fi>>

\* line 259 raises
RatedFirstFail ==
    /\ scenario = "rated" /\ ur.pc = "call"
    /\ \E e \in Errors :
         ur' = [ur EXCEPT !.pc = "raised", !.failure = e, !.error = e, !.requests = Append(@, 1)]
    /\ UNCHANGED <<scenario, fs, le, st, ml, fi>>

\* lines 267-273 and 278: take the page in, then return or move on
RatedLoop ==
    /\ scenario = "rated" /\ ur.pc = "loop"
    /\ ur.page_num <= MaxRatedPageNum
    /\ ur' = IF ur.page_num = ur.end_page
             THEN [ur EXCEPT !.pc = "done",
                             !.film_ids = @ \o ur.soup,
                             !.result = RatedResult(ur.film_ids \o ur.soup, ur.limit)]
             ELSE [ur EXCEPT !.pc = "fetch",
                             !.film_ids = @ \o ur.soup,
                             !.page_num = @ + 1]
    /\ UNCHANGED <<scenario, fs, le, st, ml, fi>>

\* lines 275-276: the next page arrives
RatedFetchOk ==
    /\ scenario = "rated" /\ ur.pc = "fetch"
    /\ ur' = [ur EXCEPT !.pc = "loop",
                        !.requests = Append(@, ur.page_num),
                        !.soup = SitePage(ur.total, FilmsPerRatedPage, ur.page_num)]
    /\ UNCHANGED <<scenario, fs, le, st, ml, fi>>

\* line 275 raises
RatedFetchFail ==
    /\ scenario = "rated" /\ ur.pc = "fetch"
    /\ \E e \in Errors :
         ur' = [ur EXCEPT !.pc = "raised", !.failure = e, !.error = e,
                          !.requests = Append(@, ur.page_num)]
    /\ UNCHANGED <<scenario, fs, le, st, ml, fi>>

(***************************************************************************)
(* LetterboxdList.entries                                                  *)
(***************************************************************************)
ListInit ==
    \E reported \in ListSizeChoices, served \in ListSizeChoices :
        le = [pc |-> "call", num_entries |-> reported, served |-> served, i |-> 1,
              entries |-> <<>>, requests |-> <<>>, failure |-> "none", error |-> "none", result |-> <<>>]

\* lines 410-414: a list of at most 100 entries is read off the loaded page
ListEntriesStart ==
    /\ scenario = "list" /\ le.pc = "call"
    /\ le' = IF le.num_entries <= EntriesPerListPage
             THEN [le EXCEPT !.pc = "done",
                             !.result = SitePage(le.served, EntriesPerListPage, 1)]
             ELSE [le EXCEPT !.pc = "loop"]
    /\ UNCHANGED <<scenario, fs, ur, st, ml, fi>>

\* lines 415-420: one more page arrives
ListEntriesFetchOk ==
    /\ scenario = "list" /\ le.pc = "loop"
    /\ Len(le.entries) < le.num_entries
    /\ le.i <= MaxListPageNum
    /\ le' = [le EXCEPT !.entries = @ \o SitePage(le.served, EntriesPerListPage, le.i),
                        !.requests = Append(@, le.i),
                        !.i = @ + 1]
    /\ UNCHANGED <<scenario, fs, ur, st, ml, fi>>

\* line 416 raises
ListEntriesFetchFail ==
    /\ scenario = "list" /\ le.pc = "loop"
    /\ Len(le.entries) < le.num_entries
    /\ le.i <= MaxListPageNum
    /\ \E e \in Errors :
         le' = [le EXCEPT !.pc = "raised", !.failure = e, !.error = e, !.requests = Append(@, le.i)]
    /\ UNCHANGED <<scenario, fs, ur, st, ml, fi>>

\* lines 415, 422: the loop condition fails
ListEntriesReturn ==
    /\ scenario = "list" /\ le.pc = "loop"
    /\ Len(le.entries) >= le.num_entries
    /\ le' = [le EXCEPT !.pc = "done", !.result = le.entries]
    /\ UNCHANGED <<scenario, fs, ur, st, ml, fi>>

(***************************************************************************)
(* Studio.entries                                                          *)
(***************************************************************************)
\* page p of a studio of np pages
StudioPage(np, p) == SitePage(np * StudioPerPage, StudioPerPage, p)

StudioInit ==
    \E np \in 1..MaxStudioPages :
        st = [pc |-> "loop", num_pages |-> np, page |-> 1,
              soup |-> StudioPage(np, 1), entries |-> <<>>, requests |-> <<>>,
              failure |-> "none", error |-> "none", result |-> <<>>]

\* lines 86-91: take the page in, then return or move on
StudioLoop ==
    /\ scenario = "studio" /\ st.pc = "loop"
    /\ st' = IF st.page = st.num_pages
             THEN [st EXCEPT !.pc = "done", !.entries = @ \o st.soup,
                             !.result = st.entries \o st.soup]
             ELSE [st EXCEPT !.pc = "fetch", !.entries = @ \o st.soup,
                             !.page = @ + 1]
    /\ UNCHANGED <<scenario, fs, ur, le, ml, fi>>

\* line 92: the next page arrives
StudioFetchOk ==
    /\ scenario = "studio" /\ st.pc = "fetch"
    /\ st' = [st EXCEPT !.pc = "loop", !.requests = Append(@, st.page),
                        !.soup = StudioPage(st.num_pages, st.page)]
    /\ UNCHANGED <<scenario, fs, ur, le, ml, fi>>

\* line 92 raises
StudioFetchFail ==
    /\ scenario = "studio" /\ st.pc = "fetch"
    /\ \E e \in Errors :
         st' = [st EXCEPT !.pc = "raised", !.failure = e, !.error = e, !.requests = Append(@, st.page)]
    /\ UNCHANGED <<scenario, fs, ur, le, ml, fi>>

(***************************************************************************)
(* The collectors' specification                                           *)
(***************************************************************************)
Init ==
    /\ scenario \in {"search", "rated", "list", "studio"}
    /\ IF scenario = "search" THEN SearchInit ELSE fs = Idle
    /\ IF scenario = "rated" THEN RatedInit ELSE ur = Idle
    /\ IF scenario = "list" THEN ListInit ELSE le = Idle
    /\ IF scenario = "studio" THEN StudioInit ELSE st = Idle
    /\ ml = Idle
    /\ fi = Idle

Next ==
    \/ SearchProbeOk \/ SearchProbeFail \/ SearchBatch
    \/ SearchScrapeOk \/ SearchScrapeFail \/ SearchBatchEnd
    \/ RatedFirstOk \/ RatedFirstFail \/ RatedLoop \/ RatedFetchOk \/ RatedFetchFail
    \/ ListEntriesStart \/ ListEntriesFetchOk \/ ListEntriesFetchFail \/ ListEntriesReturn
    \/ StudioLoop \/ StudioFetchOk \/ StudioFetchFail

Spec == Init /\ [][Next]_vars

(***************************************************************************)
(* List entries and the record-set algebra of MyList                       *)
(*                                                                         *)
(* An element of an entries list is a bare film id (kind "int") or a dict  *)
(* {'filmId': id} that may carry a review (kind "dict"; review 0 = none).  *)
(* Two elements are equal in Python exactly when these records are equal.  *)
(***************************************************************************)
IntE(k) == [filmId |-> k, kind |-> "int", review |-> 0]
DictE(k, r) == [filmId |-> k, kind |-> "dict", review |-> r]

Keys == 1..MaxKey
IntElems == {IntE(k) : k \in Keys}
PlainDictElems == {DictE(k, 0) : k \in Keys}
DictElems == {DictE(k, r) : k \in Keys, r \in 0..1}

\* all sequences over S of length at most n
SeqsUpTo(S, n) == UNION {[1..m -> S] : m \in 0..n}

\* the film ids of a list of dict entries, in order
KeysOf(entries) == [k \in 1..Len(entries) |-> entries[k].filmId]
KeySet(entries) == {entries[k].filmId : k \in 1..Len(entries)}
NoDupKeys(entries) ==
    \A j, k \in 1..Len(entries) : entries[j].filmId = entries[k].filmId => j = k

\* format_entries: [{"filmId": i} for i in entries], for bare ids
FormatEntries(entries) == [k \in 1..Len(entries) |-> DictE(entries[k].filmId, 0)]

\* util.lists_merge(lists): [elem for sublist in lists for elem in sublist]
ListsMerge(lists) == Flatten(lists)

\* the loop of __merge_entries: `if i in unique_results: continue`
RECURSIVE Unique(_, _)
Unique(results, unique_results) ==
    IF results = <<>> THEN unique_results
    ELSE IF Head(results) \in Range(unique_results)
         THEN Unique(Tail(results), unique_results)
         ELSE Unique(Tail(results), Append(unique_results, Head(results)))

\* MyList.__merge_entries(*entries_lists)
MergeEntries(entries_lists) == Unique(ListsMerge(entries_lists), <<>>)

\* `i['filmId'] not in merged_entries`: an int equals a bare id, never a dict
KeyInMerged(key, merged_entries) == IntE(key) \in Range(merged_entries)

\* [i for i in self.entries_notes if i['filmId'] not in merged_entries]
RemainingEntries(entries_notes, merged_entries) ==
    SelectSeq(entries_notes, LAMBDA e : ~KeyInMerged(e.filmId, merged_entries))

\* a replace that wrapped the first bare id only
ReplacementEntriesFirstOnly(merged_entries) ==
    IF merged_entries[1].kind # "dict" THEN FormatEntries(<<merged_entries[1]>>)
    ELSE merged_entries

\* lines 699-702: bare ids are wrapped, dicts go as they are
ReplacementEntries(merged_entries) ==
    IF merged_entries[1].kind # "dict" THEN FormatEntries(merged_entries)
    ELSE merged_entries

(***************************************************************************)
(* Descriptions: a text is a sequence of tokens                            *)
(***************************************************************************)
Tok(t) == [t |-> t, ids |-> <<>>]
TokIds(t, ids) == [t |-> t, ids |-> ids]
UserText == Tok("user")        \* text the user wrote
NN == Tok("nn")                \* "\n\n"
SEP == Tok("separator")        \* self.separator, 15 '='
DiffCap == 25

IsSpace(tok) == tok.t = "nn"

\* d.split(self.separator)[0]
RECURSIVE Split0(_)
Split0(d) == IF d = <<>> \/ Head(d) = SEP THEN <<>> ELSE <<Head(d)>> \o Split0(Tail(d))

\* str.rstrip() and str.strip()
RECURSIVE RStrip(_)
RStrip(d) == IF d # <<>> /\ IsSpace(d[Len(d)]) THEN RStrip(SubSeq(d, 1, Len(d) - 1)) ELSE d
RECURSIVE LStrip(_)
LStrip(d) == IF d # <<>> /\ IsSpace(Head(d)) THEN LStrip(Tail(d)) ELSE d
Strip(d) == LStrip(RStrip(d))

\* a listing that was never cut
LimitListUncapped(l, limit) == l

\* util.limit_list
LimitList(l, limit) == IF Len(l) <= limit THEN l ELSE SubSeq(l, 1, limit)

\* the orders in which a set can be listed
Orders(S) == {o \in [1..Cardinality(S) -> S] : \A j, k \in 1..Cardinality(S) : o[j] = o[k] => j = k}

\* sorted(S, reverse=True)
RECURSIVE SortDesc(_)
SortDesc(S) ==
    IF S = {} THEN <<>>
    ELSE LET m == CHOOSE x \in S : \A y \in S : y <= x
         IN  <<m>> \o SortDesc(S \ {m})

(***************************************************************************)
(* MyList: the loaded snapshot (soup), the list on the site (remote)       *)
(***************************************************************************)
DataKeys == {"list_id", "name", "tags", "public", "ranked", "description", "entries"}

\* MyList.data: the attributes read off the loaded edit page
Data(soup) == soup

\* the diff taken against an empty snapshot
ShowChangesNoSnapshot(soup, new_entries, order) ==
    LET new == KeySet(new_entries)
        added == SelectSeq(order, LAMBDA k : k \in new)
    IN  IF new = {}
        THEN [changed |-> FALSE, description |-> <<>>]
        ELSE [changed |-> TRUE,
              description |-> RStrip(Split0(soup.description))
                              \o <<NN, SEP, NN, TokIds("added", LimitList(added, DiffCap))>>]

\* MyList.__show_changes(new_entries).  order: the order in which the look-up
\* of get_id_name_link_dict lists film ids (it goes through a set).
ShowChanges(soup, new_entries, order) ==
    LET new == KeySet(new_entries)
        old == KeySet(soup.entries)
        added_ids   == new \ old
        removed_ids == old \ new
        added_films   == SelectSeq(order, LAMBDA k : k \in added_ids)
        removed_films == SelectSeq(order, LAMBDA k : k \in removed_ids)
        addedPart   == IF added_ids # {}
                       THEN <<TokIds("added", LimitList(added_films, DiffCap)), NN>>
                       ELSE <<>>
        removedPart == IF removed_ids # {}
                       THEN <<TokIds("removed", LimitList(removed_films, DiffCap))>>
                       ELSE <<>>
        newly_added == Strip(addedPart \o removedPart)
        before      == RStrip(Split0(soup.description)) \o <<NN>>
    IN  IF new = old
        THEN [changed |-> FALSE, description |-> <<>>]
        ELSE [changed |-> TRUE, description |-> before \o <<SEP, NN>> \o newly_added]

\* lines 666-671: the attributes to send; kw.has names the keyword arguments
NewAttrs(soup, kw, show_changes, order) ==
    LET merged == [k \in DataKeys |-> IF k \in kw.has THEN kw.val[k] ELSE Data(soup)[k]]
        diff   == ShowChanges(soup, merged.entries, order)
    IN  IF show_changes /\ diff.changed
        THEN [merged EXCEPT !.description = diff.description]
        ELSE merged

BoolToStr(b) == IF b THEN "true" ELSE "false"
StrToBool(x) == x = "true"

\* MyList.make_post_data
MakePostData(data) ==
    [filmListId   |-> data.list_id,
     name         |-> data.name,
     tag          |-> data.tags,
     publicList   |-> BoolToStr(data.public),
     numberedList |-> BoolToStr(data.ranked),
     notes        |-> data.description,
     entries      |-> IF data.entries # <<>> /\ data.entries[1].kind = "int"
                      THEN FormatEntries(data.entries) ELSE data.entries]

\* the list as the site keeps it after s/save-list: a full replace
Saved(post) ==
    [list_id |-> post.filmListId, name |-> post.name, tags |-> post.tag,
     public |-> StrToBool(post.publicList), ranked |-> StrToBool(post.numberedList),
     description |-> post.notes, entries |-> post.entries]

KwEntries(entries) == [has |-> {"entries"}, val |-> [k \in DataKeys |-> entries]]

(***************************************************************************)
(* MyList.__merge_entries applied to argument lists                        *)
(***************************************************************************)
AllElems == IntElems \cup DictElems

\* one or two argument lists holding at most MaxLen elements between them
SplitArgs(flat) ==
    {<<flat>>} \cup {<<SubSeq(flat, 1, c), SubSeq(flat, c + 1, Len(flat))>> : c \in 0..Len(flat)}

MergeArgs == UNION {SplitArgs(flat) : flat \in SeqsUpTo(AllElems, MaxLen)}

MergeInit ==
    /\ scenario = "merge"
    /\ \E args \in MergeArgs :
          ml = [pc |-> "call", op |-> "merge", args |-> args, merged |-> <<>>]

MergeCall ==
    /\ scenario = "merge" /\ ml.pc = "call"
    /\ ml' = [ml EXCEPT !.pc = "done", !.merged = MergeEntries(ml.args)]
    /\ UNCHANGED <<scenario, fs, ur, le, st, fi>>

InitMerge ==
    /\ MergeInit
    /\ fs = Idle /\ ur = Idle /\ le = Idle /\ st = Idle /\ fi = Idle

NextMerge == MergeCall

SpecMerge == InitMerge /\ [][NextMerge]_vars

(***************************************************************************)
(* MyList.replace, MyList.remove, MyList.update                            *)
(***************************************************************************)
ListRec(entries, description) ==
    [list_id |-> 1, name |-> "list", tags |-> <<>>, public |-> TRUE, ranked |-> FALSE,
     description |-> description, entries |-> entries]

\* what an edit page can show: entries with distinct film ids, film 1 with or
\* without a review
CurrentChoices == {e \in SeqsUpTo(PlainDictElems \cup {DictE(1, 1)}, 2) : NoDupKeys(e)}

\* a description the user wrote, and one that already carries a generated part
DescriptionChoices ==
    {<<UserText>>, <<UserText, NN, SEP, NN, TokIds("added", <<1>>)>>}

\* the lists handed to replace / remove: bare ids, or {'filmId': id} records
EditArgs == {<<l>> : l \in SeqsUpTo(IntElems, MaxLen) \cup SeqsUpTo(PlainDictElems, MaxLen)}

NoSources == [child_lists |-> <<>>, individuals |-> <<>>, studios |-> <<>>, users |-> <<>>,
              has_exclude |-> FALSE, exclude |-> <<>>]

MyListFrame(op, pc, args, show_changes, list, sources) ==
    [pc |-> pc, op |-> op, args |-> args, show_changes |-> show_changes,
     soup |-> list, remote |-> list, before |-> list, user_defined_name |-> list.name,
     merged |-> <<>>, ret |-> "none", new_attrs |-> list,
     posts |-> <<>>,
     sources |-> sources, final_entries |-> <<>>,
     failure |-> "none", error |-> "none", result |-> <<>>, requests |-> <<>>]

EditInit ==
    /\ scenario = "edit"
    /\ \E op \in {"replace", "remove"}, args \in EditArgs, show_changes \in BOOLEAN,
          cur \in CurrentChoices, d \in DescriptionChoices :
          ml = MyListFrame(op, "call", args, show_changes, ListRec(cur, d), NoSources)

\* MyList.update up to the POST: lines 661-673
UpdateBegin(m, kw, show_changes, order) ==
    [m EXCEPT !.pc = "post", !.new_attrs = NewAttrs(m.soup, kw, show_changes, order)]

\* the entries replace / remove hand to update
EditEntries(m) ==
    IF m.op = "replace"
    THEN ReplacementEntries(MergeEntries(m.args))
    ELSE RemainingEntries(m.soup.entries, MergeEntries(m.args))

ReplaceCall ==
    /\ scenario = "edit" /\ ml.pc = "call" /\ ml.op = "replace"
    /\ LET merged_entries == MergeEntries(ml.args)
       IN  IF merged_entries = <<>>
           THEN ml' = [ml EXCEPT !.pc = "done", !.merged = merged_entries, !.ret = "False"]
           ELSE \E order \in Orders(Keys) :
                   ml' = UpdateBegin([ml EXCEPT !.merged = merged_entries],
                                     KwEntries(EditEntries(ml)), ml.show_changes, order)
    /\ UNCHANGED <<scenario, fs, ur, le, st, fi>>

RemoveCall ==
    /\ scenario = "edit" /\ ml.pc = "call" /\ ml.op = "remove"
    /\ \E order \in Orders(Keys) :
          ml' = UpdateBegin([ml EXCEPT !.merged = MergeEntries(ml.args)],
                            KwEntries(EditEntries(ml)), ml.show_changes, order)
    /\ UNCHANGED <<scenario, fs, ur, le, st, fi>>

\* a request of get_id_name_link_dict inside __show_changes raises
LookupFail ==
    /\ scenario = "edit" /\ ml.pc = "call"
    /\ ml.op = "replace" => MergeEntries(ml.args) # <<>>
    /\ ml.show_changes
    /\ KeySet(EditEntries(ml)) # KeySet(ml.soup.entries)
    /\ \E e \in Errors :
          ml' = [ml EXCEPT !.pc = "raised", !.failure = e, !.error = e]
    /\ UNCHANGED <<scenario, fs, ur, le, st, fi>>

\* SESSION.request('POST', suburl=self.save_url, data=post_data) and line 679
PostOk ==
    /\ scenario \in {"edit", "master", "update"} /\ ml.pc = "post"
    /\ LET post_data == MakePostData(ml.new_attrs)
       IN  ml' = [ml EXCEPT !.pc = "load",
                            !.remote = Saved(post_data),
                            !.posts = Append(@, post_data),
                            !.user_defined_name =
                                IF ml.new_attrs.name # "" THEN ml.new_attrs.name ELSE @]
    /\ UNCHANGED <<scenario, fs, ur, le, st, fi>>

\* a failed save that still took over the new name
PostFailRenames ==
    /\ scenario \in {"edit", "master", "update"} /\ ml.pc = "post"
    /\ \E e \in Errors :
          ml' = [ml EXCEPT !.pc = "raised", !.failure = e, !.error = e,
                           !.user_defined_name = "renamed"]
    /\ UNCHANGED <<scenario, fs, ur, le, st, fi>>

\* the POST raises: nothing after line 676 runs
PostFail ==
    /\ scenario \in {"edit", "master", "update"} /\ ml.pc = "post"
    /\ \E e \in Errors :
          ml' = [ml EXCEPT !.pc = "raised", !.failure = e, !.error = e]
    /\ UNCHANGED <<scenario, fs, ur, le, st, fi>>

\* self.load(): the snapshot becomes what the site holds
LoadOk ==
    /\ scenario \in {"edit", "master", "update"} /\ ml.pc = "load"
    /\ ml' = [ml EXCEPT !.pc = "done", !.soup = ml.remote]
    /\ UNCHANGED <<scenario, fs, ur, le, st, fi>>

LoadFail ==
    /\ scenario \in {"edit", "master", "update"} /\ ml.pc = "load"
    /\ \E e \in Errors :
          ml' = [ml EXCEPT !.pc = "raised", !.failure = e, !.error = e]
    /\ UNCHANGED <<scenario, fs, ur, le, st, fi>>

InitEdit ==
    /\ EditInit
    /\ fs = Idle /\ ur = Idle /\ le = Idle /\ st = Idle /\ fi = Idle

NextEdit ==
    \/ ReplaceCall \/ RemoveCall \/ LookupFail
    \/ PostOk \/ PostFail \/ LoadOk \/ LoadFail

SpecEdit == InitEdit /\ [][NextEdit]_vars

(***************************************************************************)
(* MyList.update called with keyword arguments                             *)
(***************************************************************************)
DictRun(first, last) == [k \in 1..(last - first + 1) |-> DictE(first + k - 1, 0)]

\* entries of the snapshot, and entries passed as entries=...
UpdateCurrentChoices == {<<>>, DictRun(1, 2), DictRun(1, BigRun)}
UpdateEntriesChoices ==
    {<<>>, DictRun(1, 2), DictRun(2, 3), DictRun(1, BigRun), DictRun(BigRun + 1, 2 * BigRun)}

\* the value each keyword argument carries when it is passed
OverrideVal(k, name, entries) ==
    CASE k = "list_id" -> 2
      [] k = "name" -> name
      [] k = "tags" -> <<"tag">>
      [] k = "public" -> FALSE
      [] k = "ranked" -> TRUE
      [] k = "description" -> <<Tok("other")>>
      [] OTHER -> entries

\* the keyword arguments of a call; unknown: a key that is no attribute
KwChoices ==
    {[has |-> h, unknown |-> u, val |-> [k \in DataKeys |-> OverrideVal(k, n, e)]] :
        h \in SUBSET DataKeys, u \in BOOLEAN, n \in {"renamed", ""}, e \in UpdateEntriesChoices}

\* the look-up lists long id sets in ascending or in descending order
LongOrders == {IdRun(1, 2 * BigRun), [k \in 1..(2 * BigRun) |-> 2 * BigRun + 1 - k]}

UpdateInit ==
    /\ scenario = "update"
    /\ \E kw \in KwChoices, show_changes \in BOOLEAN,
          cur \in UpdateCurrentChoices, d \in DescriptionChoices :
          /\ "name" \notin kw.has => kw.val["name"] = "renamed"
          /\ "entries" \notin kw.has => kw.val["entries"] = <<>>
          /\ kw.unknown => kw.has \subseteq {"entries"}
          /\ ml = MyListFrame("update", "call", kw, show_changes, ListRec(cur, d), NoSources)

\* the attributes update would send, before __show_changes
MergedAttrs(m) == [k \in DataKeys |-> IF k \in m.args.has THEN m.args.val[k] ELSE Data(m.soup)[k]]

\* an update that found the unknown key only after it had saved
UpdateKeyErrorAfterSave ==
    /\ scenario = "update" /\ ml.pc = "call" /\ ml.args.unknown
    /\ LET post_data == MakePostData(NewAttrs(ml.soup, ml.args, FALSE, <<>>))
       IN  ml' = [ml EXCEPT !.pc = "raised", !.error = "KeyError",
                            !.remote = Saved(post_data),
                            !.posts = Append(@, post_data)]
    /\ UNCHANGED <<scenario, fs, ur, le, st, fi>>

\* lines 661-662: an unknown key raises before anything is sent
UpdateKeyError ==
    /\ scenario = "update" /\ ml.pc = "call" /\ ml.args.unknown
    /\ ml' = [ml EXCEPT !.pc = "raised", !.error = "KeyError"]
    /\ UNCHANGED <<scenario, fs, ur, le, st, fi>>

\* MyList.update(show_changes, **kwargs), lines 661-673
UpdateCall ==
    /\ scenario = "update" /\ ml.pc = "call" /\ ~ml.args.unknown
    /\ \E order \in LongOrders :
          ml' = UpdateBegin(ml, ml.args, ml.show_changes, order)
    /\ UNCHANGED <<scenario, fs, ur, le, st, fi>>

\* a request of get_id_name_link_dict inside __show_changes raises
UpdateLookupFail ==
    /\ scenario = "update" /\ ml.pc = "call" /\ ~ml.args.unknown
    /\ ml.show_changes
    /\ KeySet(MergedAttrs(ml).entries) # KeySet(ml.soup.entries)
    /\ \E e \in Errors :
          ml' = [ml EXCEPT !.pc = "raised", !.failure = e, !.error = e]
    /\ UNCHANGED <<scenario, fs, ur, le, st, fi>>

InitUpdate ==
    /\ UpdateInit
    /\ fs = Idle /\ ur = Idle /\ le = Idle /\ st = Idle /\ fi = Idle

NextUpdate ==
    \/ UpdateKeyError \/ UpdateCall \/ UpdateLookupFail
    \/ PostOk \/ PostFail \/ LoadOk \/ LoadFail

SpecUpdate == InitUpdate /\ [][NextUpdate]_vars

(***************************************************************************)
(* MyMasterList                                                            *)
(***************************************************************************)
\* the key lists of the sources of one group: none, or one source
OneSource(lists) == {<<>>} \cup {<<l>> : l \in lists}

SourceChoices ==
    [child_lists : OneSource(SeqsUpTo(Keys, 2)),
     individuals : OneSource({<<k>> : k \in Keys}),
     studios     : OneSource({<<k>> : k \in Keys}),
     users       : OneSource({<<k>> : k \in Keys}),
     has_exclude : {TRUE},
     exclude     : SeqsUpTo(Keys, 1)]
    \cup
    [child_lists : OneSource(SeqsUpTo(Keys, 2)),
     individuals : OneSource({<<k>> : k \in Keys}),
     studios     : OneSource({<<k>> : k \in Keys}),
     users       : OneSource({<<k>> : k \in Keys}),
     has_exclude : {FALSE},
     exclude     : {<<>>}]

\* the entries the master list had when it was loaded
MasterCurrentChoices == {<<>>, <<DictE(2, 0), DictE(1, 0)>>}

MasterInit ==
    /\ scenario = "master"
    /\ \E src \in SourceChoices, cur \in MasterCurrentChoices, d \in DescriptionChoices :
          ml = MyListFrame("master", "init", <<>>, FALSE, ListRec(cur, d), src)

\* a final list that forgot the exclude list
FinalEntriesNoExclude(src) ==
    LET merged == ListsMerge(<<ListsMerge(src.child_lists), ListsMerge(src.individuals),
                               ListsMerge(src.studios), ListsMerge(src.users)>>)
    IN  [k \in 1..Len(SortDesc(Range(merged))) |-> DictE(SortDesc(Range(merged))[k], 0)]

\* MyMasterList.__init__, lines 1012-1026
FinalEntries(src) ==
    LET exclude_list == IF ~src.has_exclude THEN <<>> ELSE src.exclude
        get_entries(x) == IF x = <<>> THEN <<>> ELSE ListsMerge(x)
        e_cl == get_entries(src.child_lists)
        e_i  == get_entries(src.individuals)
        e_s  == get_entries(src.studios)
        e_u  == get_entries(src.users)
        merged == ListsMerge(<<e_cl, e_i, e_s, e_u>>)
        pre_format == {merged[k] : k \in {j \in 1..Len(merged) : merged[j] \notin Range(exclude_list)}}
        sorted == SortDesc(pre_format)
    IN  [k \in 1..Len(sorted) |-> DictE(sorted[k], 0)]

MasterConstruct ==
    /\ scenario = "master" /\ ml.pc = "init"
    /\ ml' = [ml EXCEPT !.pc = "call", !.final_entries = FinalEntries(ml.sources)]
    /\ UNCHANGED <<scenario, fs, ur, le, st, fi>>

\* one enumerated section of the generated description
Section(title, group) ==
    IF group = <<>> THEN <<>> ELSE <<TokIds(title, [k \in 1..Len(group) |-> k]), NN>>

\* a description that kept what earlier runs generated
MasterDescriptionAppends(m) ==
    m.soup.description \o <<NN, SEP, NN>>
        \o Section("lists", m.sources.child_lists)
        \o Section("individuals", m.sources.individuals)
        \o Section("studios", m.sources.studios)
        \o Section("users", m.sources.users)

\* the description master_update builds, lines 1039-1067
MasterDescription(m) ==
    LET d == m.soup.description
        before == IF SEP \notin Range(d)
                  THEN d \o <<NN, SEP, NN>>
                  ELSE RStrip(Split0(d)) \o <<NN, SEP, NN>>
        after == Section("lists", m.sources.child_lists)
                 \o Section("individuals", m.sources.individuals)
                 \o Section("studios", m.sources.studios)
                 \o Section("users", m.sources.users)
    IN  before \o after

\* master_update: self.update(show_changes=False, description=..., entries=...)
MasterUpdate ==
    /\ scenario = "master" /\ ml.pc = "call"
    /\ LET kw == [has |-> {"description", "entries"},
                  val |-> [k \in DataKeys |-> IF k = "description" THEN MasterDescription(ml)
                                              ELSE ml.final_entries]]
       IN  ml' = UpdateBegin(ml, kw, FALSE, <<>>)
    /\ UNCHANGED <<scenario, fs, ur, le, st, fi>>

InitMaster ==
    /\ MasterInit
    /\ fs = Idle /\ ur = Idle /\ le = Idle /\ st = Idle /\ fi = Idle

NextMaster ==
    \/ MasterConstruct \/ MasterUpdate
    \/ PostOk \/ PostFail \/ LoadOk \/ LoadFail

SpecMaster == InitMaster /\ [][NextMaster]_vars

(***************************************************************************)
(* Master updates run one after another on the same list                   *)
(***************************************************************************)
\* the sources a run is constructed with
RunSourceChoices ==
    [child_lists : {<<>>, <<<<1, 2>>>>},
     individuals : {<<>>, <<<<3>>>>},
     studios     : {<<>>},
     users       : {<<>>, <<<<1>>>>},
     has_exclude : {FALSE},
     exclude     : {<<>>}]

\* what the user had written before the first run
RunDescriptionChoices ==
    {<<>>, <<UserText>>, <<UserText, NN>>, <<UserText, NN, SEP, NN, TokIds("added", <<1>>)>>}

MasterRunsInit ==
    /\ scenario = "master"
    /\ \E src \in RunSourceChoices, cur \in MasterCurrentChoices, d \in RunDescriptionChoices :
          ml = MyListFrame("master", "init", <<>>, FALSE, ListRec(cur, d), src)

\* a new MyMasterList is constructed on the list a run has just updated
MasterAgain ==
    /\ scenario = "master" /\ ml.pc = "done" /\ Len(ml.posts) < MaxRuns
    /\ \E src \in RunSourceChoices :
          ml' = [ml EXCEPT !.pc = "init", !.sources = src, !.final_entries = <<>>]
    /\ UNCHANGED <<scenario, fs, ur, le, st, fi>>

InitMasterRuns ==
    /\ MasterRunsInit
    /\ fs = Idle /\ ur = Idle /\ le = Idle /\ st = Idle /\ fi = Idle

NextMasterRuns ==
    \/ MasterConstruct \/ MasterUpdate \/ MasterAgain
    \/ PostOk \/ PostFail \/ LoadOk \/ LoadFail

SpecMasterRuns == InitMasterRuns /\ [][NextMasterRuns]_vars

(***************************************************************************)
(* Rating histograms: FilmInfo.__get_ratings, UserInfo.ratings, util.key_max*)
(*                                                                         *)
(* A histogram page shows a number of bars; a bar is the count its link    *)
(* gives, 0 when the bar has no link.                                      *)
(***************************************************************************)
Scores == 1..10
BarsExpected == 10

\* counts seen on the bars that vary; the other bars are empty
CountChoices == {0, 1, 5, 20}
VaryingScores == {1, 2, 5, 10}
HistChoices == {h \in [Scores -> CountChoices] : \A n \in Scores \ VaryingScores : h[n] = 0}

\* a page with the bars of h, one bar short, or one bar too many
BarsOf(h, n) == [k \in 1..n |-> IF k \in Scores THEN h[k] ELSE 0]
PageChoices ==
    {[kind |-> "empty", bars |-> <<>>]}
    \cup {[kind |-> "bars", bars |-> BarsOf(h, n)] :
             h \in HistChoices, n \in (BarsExpected - 1)..(BarsExpected + 1)}

NoRatings == [absent |-> TRUE, hist |-> [n \in Scores |-> 0]]

\* results of the statistics
IntV(i) == [kind |-> "int", i |-> i]
BoolV(b) == [kind |-> "bool", b |-> b]
FloatV(f) == [kind |-> "float", f |-> f]
RatioV(num, den) == [kind |-> "ratio", num |-> num, den |-> den]
EstimateV == [kind |-> "estimate"]
NoneV == [kind |-> "none"]

RatingsFrame(owner, page) ==
    [pc |-> "new", owner |-> owner, page |-> page, ratings |-> NoRatings,
     fn |-> "none", cutoff |-> 0, fallback |-> 0, result |-> NoneV, error |-> "none"]

RatingsInit ==
    /\ scenario = "ratings"
    /\ \E owner \in {"film", "user"}, page \in PageChoices :
          /\ owner = "user" => page.kind = "bars"
          /\ fi = RatingsFrame(owner, page)

\* a reader that took whatever bars the page showed
ReadRatingsAnyLength ==
    /\ scenario = "ratings" /\ fi.pc = "new" /\ fi.owner = "film"
    /\ fi' = IF fi.page.kind = "empty"
             THEN [fi EXCEPT !.pc = "ready", !.ratings = NoRatings]
             ELSE [fi EXCEPT !.pc = "ready",
                             !.ratings = [absent |-> FALSE,
                                          hist |-> [n \in 1..Len(fi.page.bars) |-> fi.page.bars[n]]]]
    /\ UNCHANGED <<scenario, fs, ur, le, st, ml>>

\* FilmInfo.__get_ratings, called by FilmInfo.__init__
ReadRatings ==
    /\ scenario = "ratings" /\ fi.pc = "new" /\ fi.owner = "film"
    /\ fi' = IF fi.page.kind = "empty"
             THEN [fi EXCEPT !.pc = "ready", !.ratings = NoRatings]
             ELSE IF Len(fi.page.bars) # BarsExpected
             THEN [fi EXCEPT !.pc = "raised", !.error = "ValueError"]
             ELSE [fi EXCEPT !.pc = "ready",
                             !.ratings = [absent |-> FALSE,
                                          hist |-> [n \in Scores |-> fi.page.bars[n]]]]
    /\ UNCHANGED <<scenario, fs, ur, le, st, ml>>

\* the key (score+1)/2 of UserInfo.ratings: stars as a fraction
Stars(score) == [num |-> score + 1, den |-> 2]

\* UserInfo.ratings
UserReadRatings ==
    /\ scenario = "ratings" /\ fi.pc = "new" /\ fi.owner = "user"
    /\ fi' = IF Len(fi.page.bars) # BarsExpected
             THEN [fi EXCEPT !.pc = "raised", !.error = "ValueError"]
             ELSE [fi EXCEPT !.pc = "done",
                             !.ratings = [absent |-> FALSE,
                                          hist |-> [k \in {Stars(score) : score \in 0..(BarsExpected - 1)}
                                                      |-> fi.page.bars[k.num]]]]
    /\ UNCHANGED <<scenario, fs, ur, le, st, ml>>

(***************************************************************************)
(* The rating statistics of FilmInfo                                       *)
(***************************************************************************)
GOOD_MOVIE == [num |-> 7, den |-> 2]      \* 3.5

\* arguments the statistics are called with; rating 0 stands for None
CutoffChoices == {0, 3, 5, 30}
FallbackChoices == {0, 5}
RatingArgChoices == {0, 1, 10}

RECURSIVE SumTo(_, _)
SumTo(f, n) == IF n = 0 THEN 0 ELSE f[n] + SumTo(f, n - 1)

\* x * 0.5 for a float x
Half(x) == IF x.m = <<>> THEN x ELSE [x EXCEPT !.e = @ - 1]

\* max(zip(d.values(), d.keys()))[1] over the keys D
KeyOfMax(d, D) == CHOOSE k \in D : \A j \in D : d[j] < d[k] \/ (d[j] = d[k] /\ j <= k)

\* util.key_max(d, max_num, only_max) for a dict with the keys D; False is 0
RECURSIVE KeyMax(_, _, _, _)
KeyMax(d, D, max_num, only_max) ==
    IF max_num > 1 THEN KeyMax(d, D \ {KeyOfMax(d, D)}, max_num - 1, only_max)
    ELSE LET m == KeyOfMax(d, D)
         IN  IF only_max /\ Cardinality({j \in D : d[j] = d[m]}) > 1 THEN 0 ELSE m

\* FilmInfo.get_total_ratings(rating) and the property num_ratings
GetTotalRatings(r, rating) ==
    IF r.absent THEN 0
    ELSE IF rating = 0 THEN SumTo(r.hist, 10)
    ELSE r.hist[rating]
NumRatings(r) == GetTotalRatings(r, 0)

\* FilmInfo.total_rating_score
TotalRatingScore(r) ==
    IF NumRatings(r) = 0 THEN 0 ELSE SumTo([n \in Scores |-> n * r.hist[n]], 10)

\* a mean left in half-star units
TrueAvgRatingUnscaled(r) ==
    IF NumRatings(r) = 0 THEN IntV(0)
    ELSE FloatV(PyTrueDiv(TotalRatingScore(r), NumRatings(r)))

\* FilmInfo.true_avg_rating
TrueAvgRating(r) ==
    IF NumRatings(r) = 0 THEN IntV(0)
    ELSE FloatV(Half(PyTrueDiv(TotalRatingScore(r), NumRatings(r))))

\* FilmInfo.__get_bayesian_average: the fallback 2.75, or the estimate that
\* scipy's beta.ppf gives (its value is not computed here)
BayesianAverage(r) ==
    IF r.absent \/ \A n \in Scores : r.hist[n] = 0
    THEN FloatV(PyTrueDiv(11, 4))
    ELSE EstimateV

\* the weights of get_slanted_avg_rating, in hundredths: 1.2, 1.05, 0.75
SlantWeight(n) == CASE n = 1 -> 120 [] n = 2 -> 105 [] n = 10 -> 75 [] OTHER -> 100

\* a slanted mean that compared the cutoff the other way round
GetSlantedAvgRatingAbove(r, no_rating_fallback, cutoff) ==
    IF NumRatings(r) >= cutoff
    THEN [raised |-> "none", value |-> IntV(no_rating_fallback)]
    ELSE [raised |-> "TypeError", value |-> NoneV]

\* FilmInfo.get_slanted_avg_rating(no_rating_fallback, cutoff); the quotient is
\* kept as the exact fraction of the weighted sums
GetSlantedAvgRating(r, no_rating_fallback, cutoff) ==
    IF NumRatings(r) < cutoff
    THEN [raised |-> "none", value |-> IntV(no_rating_fallback)]
    ELSE IF r.absent
    THEN [raised |-> "TypeError", value |-> NoneV]
    ELSE LET num_ratings == SumTo([n \in Scores |-> SlantWeight(n) * r.hist[n]], 10)
             score == SumTo([n \in Scores |-> n * SlantWeight(n) * r.hist[n]], 10)
         IN  IF num_ratings = 0
             THEN [raised |-> "ZeroDivisionError", value |-> NoneV]
             ELSE [raised |-> "none", value |-> RatioV(score, 2 * num_ratings)]

\* FilmInfo.ironic_ratings
IronicRatings(r) ==
    IF r.absent THEN FALSE
    ELSE NumRatings(r) >= 10
         /\ {KeyMax(r.hist, Scores, 1, FALSE), KeyMax(r.hist, Scores, 2, FALSE)} = {1, 10}

\* FilmInfo.is_hated(cutoff)
IsHated(r, cutoff) ==
    IF NumRatings(r) < cutoff THEN [raised |-> "none", value |-> BoolV(FALSE)]
    ELSE IF r.absent THEN [raised |-> "TypeError", value |-> NoneV]
    ELSE [raised |-> "none", value |-> BoolV(KeyMax(r.hist, Scores, 1, FALSE) = 1)]

\* FilmInfo.is_bad; low: whether the Bayesian estimate is below 1.6
IsBad(r, low) ==
    IF IronicRatings(r) THEN TRUE
    ELSE IF BayesianAverage(r) # EstimateV THEN FALSE
    ELSE low /\ KeyMax(r.hist, Scores, 1, TRUE) = 1

\* x >= GOOD_MOVIE for what get_slanted_avg_rating returned
ReachesGood(v) ==
    IF v.kind = "int" THEN v.i * GOOD_MOVIE.den >= GOOD_MOVIE.num
    ELSE v.num * GOOD_MOVIE.den >= GOOD_MOVIE.num * v.den

\* FilmInfo.is_good(no_rating_fallback, cutoff)
IsGood(r, no_rating_fallback, cutoff) ==
    LET slanted == GetSlantedAvgRating(r, no_rating_fallback, cutoff)
    IN  IF slanted.raised # "none" THEN slanted
        ELSE [raised |-> "none", value |-> BoolV(ReachesGood(slanted.value))]

\* the frame after a statistic returned or raised
Returned(f, fn, cutoff, fallback, out) ==
    IF out.raised # "none"
    THEN [f EXCEPT !.pc = "raised", !.fn = fn, !.cutoff = cutoff, !.fallback = fallback,
                   !.error = out.raised]
    ELSE [f EXCEPT !.pc = "done", !.fn = fn, !.cutoff = cutoff, !.fallback = fallback,
                   !.result = out.value]
Value(v) == [raised |-> "none", value |-> v]

Ready == scenario = "ratings" /\ fi.pc = "ready"

CallGetTotalRatings ==
    /\ Ready
    /\ \E rating \in RatingArgChoices :
          fi' = Returned(fi, "get_total_ratings", rating, 0, Value(IntV(GetTotalRatings(fi.ratings, rating))))
    /\ UNCHANGED <<scenario, fs, ur, le, st, ml>>

CallTotalRatingScore ==
    /\ Ready
    /\ fi' = Returned(fi, "total_rating_score", 0, 0, Value(IntV(TotalRatingScore(fi.ratings))))
    /\ UNCHANGED <<scenario, fs, ur, le, st, ml>>

CallTrueAvgRating ==
    /\ Ready
    /\ fi' = Returned(fi, "true_avg_rating", 0, 0, Value(TrueAvgRating(fi.ratings)))
    /\ UNCHANGED <<scenario, fs, ur, le, st, ml>>

CallBayesianAverage ==
    /\ Ready
    /\ fi' = Returned(fi, "bayesian_average", 0, 0, Value(BayesianAverage(fi.ratings)))
    /\ UNCHANGED <<scenario, fs, ur, le, st, ml>>

CallGetSlantedAvgRating ==
    /\ Ready
    /\ \E cutoff \in CutoffChoices, fallback \in FallbackChoices :
          fi' = Returned(fi, "get_slanted_avg_rating", cutoff, fallback,
                         GetSlantedAvgRating(fi.ratings, fallback, cutoff))
    /\ UNCHANGED <<scenario, fs, ur, le, st, ml>>

CallIronicRatings ==
    /\ Ready
    /\ fi' = Returned(fi, "ironic_ratings", 0, 0, Value(BoolV(IronicRatings(fi.ratings))))
    /\ UNCHANGED <<scenario, fs, ur, le, st, ml>>

CallIsHated ==
    /\ Ready
    /\ \E cutoff \in CutoffChoices :
          fi' = Returned(fi, "is_hated", cutoff, 0, IsHated(fi.ratings, cutoff))
    /\ UNCHANGED <<scenario, fs, ur, le, st, ml>>

CallIsBad ==
    /\ Ready
    /\ \E low \in BOOLEAN, cutoff \in CutoffChoices, fallback \in FallbackChoices :
          fi' = Returned(fi, "is_bad", cutoff, fallback, Value(BoolV(IsBad(fi.ratings, low))))
    /\ UNCHANGED <<scenario, fs, ur, le, st, ml>>

CallIsGood ==
    /\ Ready
    /\ \E cutoff \in CutoffChoices, fallback \in FallbackChoices :
          fi' = Returned(fi, "is_good", cutoff, fallback, IsGood(fi.ratings, fallback, cutoff))
    /\ UNCHANGED <<scenario, fs, ur, le, st, ml>>

InitRatings ==
    /\ RatingsInit
    /\ fs = Idle /\ ur = Idle /\ le = Idle /\ st = Idle /\ ml = Idle

NextRatings ==
    \/ ReadRatings \/ UserReadRatings
    \/ CallGetTotalRatings \/ CallTotalRatingScore \/ CallTrueAvgRating
    \/ CallBayesianAverage \/ CallGetSlantedAvgRating
    \/ CallIronicRatings \/ CallIsHated \/ CallIsBad \/ CallIsGood

SpecRatings == InitRatings /\ [][NextRatings]_vars

(***************************************************************************)
(* Constructing a search: FilmSearch.__init__, UserRated.__init__ and the  *)
(* argument checks of UserRated.__call__                                   *)
(*                                                                         *)
(* A Python str is a sequence of one-character strings; an argument that   *)
(* may be None is [none |-> TRUE] or the value under val.                  *)
(***************************************************************************)
NoneInt == [none |-> TRUE, val |-> 0]
NoneStr == [none |-> TRUE, val |-> <<>>]
Some(v) == [none |-> FALSE, val |-> v]

\* truth value of an int-or-None and of a str-or-None argument
TruthyInt(a) == ~a.none /\ a.val # 0
TruthyStr(a) == ~a.none /\ a.val # <<>>

Upper == <<"A", "B", "C", "D", "E", "F", "G", "H", "I", "J", "K", "L", "M",
           "N", "O", "P", "Q", "R", "S", "T", "U", "V", "W", "X", "Y", "Z">>
Lowercase == <<"a", "b", "c", "d", "e", "f", "g", "h", "i", "j", "k", "l", "m",
               "n", "o", "p", "q", "r", "s", "t", "u", "v", "w", "x", "y", "z">>
DigitChars == <<"0", "1", "2", "3", "4", "5", "6", "7", "8", "9">>

\* str.lower()
LowerChar(c) ==
    IF \E k \in 1..26 : Upper[k] = c
    THEN Lowercase[CHOOSE k \in 1..26 : Upper[k] = c]
    ELSE c
Lower(s) == [k \in 1..Len(s) |-> LowerChar(s[k])]

\* str.replace(" ", "-")
Hyphenate(s) == [k \in 1..Len(s) |-> IF s[k] = " " THEN "-" ELSE s[k]]

IsDigit(c) == \E k \in 1..10 : DigitChars[k] = c
IsWordChar(c) == IsDigit(c) \/ c = "_" \/ LowerChar(c) \in Range(Lowercase)

\* str(n) of an int n >= 0
RECURSIVE Digits(_)
Digits(n) == IF n < 10 THEN <<DigitChars[n + 1]>>
             ELSE Append(Digits(n \div 10), DigitChars[(n % 10) + 1])

\* int(s) goes through exactly when s is a run of digits (the inputs of the
\* model hold no sign, blank or underscore)
IsInt(s) == s # <<>> /\ \A k \in 1..Len(s) : IsDigit(s[k])

\* what the session scraped from the site when it was created
\* (session.py lines 46-51); the decade of the run is the 2020s
YearRange == <<1860, 2030>>
GenreList == {<<"w", "a", "r">>, <<"t", "v", " ", "m", "o", "v", "i", "e">>}
RegionKeys == {<<"u", "k">>, <<"U", "S", "A">>}
LanguageKeys == {<<"t", "h", "a", "i">>}
SortbyList == {<<"p", "o", "p", "u", "l", "a", "r">>, <<"b", "y", "/", "n", "a", "m", "e">>}
ServiceList == {<<"m", "u", "b", "i">>, <<"N", "e", "t", "f", "l", "i", "x">>}
FiltersDict == [c \in {<<"l", "i", "k", "e", "d">>} |-> {<<"s", "h", "o", "w">>, <<"h", "i", "d", "e">>}]

\* range(a, b) and range(a, b, step) as sets
PyRange(a, b) == a..(b - 1)
PyRangeStep(a, b, step) == {n \in a..(b - 1) : (n - a) % step = 0}

Bogus == <<"z", "z">>

(***************************************************************************)
(* FilmSearch.__init__                                                     *)
(***************************************************************************)
SearchYearChoices == {NoneInt, Some(0), Some(1859), Some(1860), Some(2029), Some(2030)}
SearchDecadeChoices == {NoneInt, Some(0), Some(1850), Some(1995), Some(2020)}
SearchGenreChoices == {NoneStr, Some(<<>>), Some(<<"W", "a", "r">>),
                       Some(<<"t", "v", " ", "m", "o", "v", "i", "e">>), Some(Bogus)}
SearchCountryChoices == {NoneStr, Some(<<"U", "K">>), Some(<<"u", "s", "a">>), Some(Bogus)}
SearchLanguageChoices == {NoneStr, Some(<<"t", "h", "a", "i">>), Some(Bogus)}
SearchSortChoices == {Some(<<"p", "o", "p", "u", "l", "a", "r">>),
                      Some(<<"b", "y", "/", "n", "a", "m", "e">>), Some(Bogus), NoneStr}

NoSelf == [sort_by |-> NoneStr, genre |-> NoneStr, year |-> NoneInt,
           decade |-> NoneStr, country |-> NoneStr, language |-> NoneStr]

NewSearchInit ==
    \E sort_by \in SearchSortChoices, genre \in SearchGenreChoices,
       decade \in SearchDecadeChoices, year \in SearchYearChoices,
       country \in SearchCountryChoices, language \in SearchLanguageChoices :
        fs = [pc |-> "new",
              args |-> [sort_by |-> sort_by, genre |-> genre, decade |-> decade,
                        year |-> year, country |-> country, language |-> language],
              self |-> NoSelf, requests |-> <<>>, error |-> "none"]

\* lines 54-56: lower-case the str arguments that are truthy
LowerIfTruthy(a) == IF TruthyStr(a) THEN Some(Lower(a.val)) ELSE a

\* lines 60-73: the first check that fails names the exception, "none" when
\* every check passes
SearchArgsError(sort_by, genre, decade, year, country, language) ==
    IF TruthyInt(year) /\ TruthyInt(decade) THEN "Exception"
    ELSE IF TruthyInt(year) /\ year.val \notin PyRange(YearRange[1], YearRange[2])
         THEN "ValueError"
    ELSE IF TruthyInt(decade) /\ decade.val \notin PyRangeStep(YearRange[1], YearRange[2], 10)
         THEN "ValueError"
    ELSE IF TruthyStr(genre) /\ genre.val \notin GenreList THEN "ValueError"
    ELSE IF TruthyStr(country) /\ country.val \notin {Lower(r) : r \in RegionKeys}
         THEN "ValueError"
    ELSE IF TruthyStr(language) /\ language.val \notin {Lower(l) : l \in LanguageKeys}
         THEN "ValueError"
    ELSE IF sort_by.none \/ sort_by.val \notin SortbyList THEN "ValueError"
    ELSE "none"

\* lines 17-87.  The decade is kept as the str f"{decade}s" when it is truthy;
\* a decade of None or 0 is kept as it came and is falsy wherever it is read,
\* so both are kept as None.
FilmSearchConstruct ==
    /\ scenario = "newsearch" /\ fs.pc = "new"
    /\ LET a == fs.args
           genre == LowerIfTruthy(a.genre)
           country == LowerIfTruthy(a.country)
           language == LowerIfTruthy(a.language)
           err == SearchArgsError(a.sort_by, genre, a.decade, a.year, country, language)
       IN  fs' = IF err # "none"
                 THEN [fs EXCEPT !.pc = "raised", !.error = err]
                 ELSE [fs EXCEPT !.pc = "constructed",
                          !.self = [sort_by |-> a.sort_by,
                                    genre |-> IF TruthyStr(genre)
                                              THEN Some(Hyphenate(genre.val)) ELSE genre,
                                    year |-> a.year,
                                    decade |-> IF TruthyInt(a.decade)
                                               THEN Some(Append(Digits(a.decade.val), "s"))
                                               ELSE NoneStr,
                                    country |-> country,
                                    language |-> language]]
    /\ UNCHANGED <<scenario, ur, le, st, ml, fi>>

\* FilmSearch.suburl (lines 154-182), as the list of its path segments
SearchSuburl(self) ==
    <<<<"f", "i", "l", "m", "s">>, <<"a", "j", "a", "x">>, self.sort_by.val>>
    \o (IF TruthyInt(self.year) THEN <<<<"y", "e", "a", "r">>, Digits(self.year.val)>>
        ELSE IF TruthyStr(self.decade)
             THEN <<<<"d", "e", "c", "a", "d", "e">>, self.decade.val>>
        ELSE <<>>)
    \o (IF TruthyStr(self.genre) THEN <<<<"g", "e", "n", "r", "e">>, self.genre.val>> ELSE <<>>)
    \o (IF TruthyStr(self.country)
        THEN <<<<"c", "o", "u", "n", "t", "r", "y">>, self.country.val>> ELSE <<>>)
    \o (IF TruthyStr(self.language)
        THEN <<<<"l", "a", "n", "g", "u", "a", "g", "e">>, self.language.val>> ELSE <<>>)
    \o <<<<"s", "i", "z", "e">>, <<"s", "m", "a", "l", "l">>>>

\* lines 115-119, 188: the first request of a call of the search
FilmSearchFirstRequest ==
    /\ scenario = "newsearch" /\ fs.pc = "constructed"
    /\ fs' = [fs EXCEPT !.pc = "requested",
                        !.requests = Append(@, SearchSuburl(fs.self))]
    /\ UNCHANGED <<scenario, ur, le, st, ml, fi>>

(***************************************************************************)
(* UserRated.__init__ and UserRated.__call__ up to its first request       *)
(***************************************************************************)
\* a rating is counted in tenths of a star (35 is 3.5); the inputs of the
\* model are not negative
RatedYearChoices == {NoneStr, Some(<<>>), Some(<<"1", "9", "7", "5">>),
                     Some(<<"1", "9", "7", "0", "S">>), Some(<<"1", "9", "7", "5", "s">>),
                     Some(<<"1", "9", "7", "0", "s", "s">>), Some(<<"1", "7", "0", "0">>),
                     Some(Bogus)}
RatedGenreChoices == {NoneStr, Some(<<"W", "a", "r">>), Some(Bogus)}
RatedServiceChoices == {NoneStr, Some(<<"m", "u", "b", "i">>),
                        Some(<<"N", "e", "t", "f", "l", "i", "x">>), Some(Bogus)}
RatedRatingChoices == {NoneInt, Some(0), Some(5), Some(33), Some(40), Some(55)}
RatedSortChoices == {<<"n", "a", "m", "e">>, Bogus}
RatedFiltersChoices == {<<>>, << <<"s", "h", "o", "w", "-", "l", "i", "k", "e", "d">> >>,
                        << <<"s", "h", "o", "w", "l", "i", "k", "e", "d">> >>,
                        << <<"s", "h", "o", "w", "-", "z", "z">> >>}
Username == <<"b", "o", "b">>

NewRatedInit ==
    \E rated_only \in BOOLEAN, year \in RatedYearChoices, genre \in RatedGenreChoices,
       service \in RatedServiceChoices, rating \in RatedRatingChoices,
       sort_by \in RatedSortChoices, filters \in RatedFiltersChoices :
        ur = [pc |-> "new", called |-> FALSE, username |-> Username,
              args |-> [rated_only |-> rated_only, year |-> year, genre |-> genre,
                        service |-> service, rating |-> rating, sort_by |-> sort_by,
                        filters |-> filters],
              suburl |-> <<>>, requests |-> <<>>, error |-> "none"]

\* lines 155-167 with get_psuedo_username (lines 17-30): the profile page arrives
UserRatedConstructOk ==
    /\ scenario = "newrated" /\ ur.pc = "new"
    /\ ur' = [ur EXCEPT !.pc = "constructed",
                        !.requests = Append(@, [for |-> "profile", url |-> <<ur.username>>])]
    /\ UNCHANGED <<scenario, fs, le, st, ml, fi>>

\* line 26 raises
UserRatedConstructFail ==
    /\ scenario = "newrated" /\ ur.pc = "new"
    /\ \E e \in Errors :
         ur' = [ur EXCEPT !.pc = "raised", !.error = e,
                          !.requests = Append(@, [for |-> "profile", url |-> <<ur.username>>])]
    /\ UNCHANGED <<scenario, fs, le, st, ml, fi>>

\* the pattern ^\w+-{1}\w+$ of get_valid_filters (session.py line 244)
HyphenAt(s) == {k \in 2..(Len(s) - 1) :
                  /\ s[k] = "-"
                  /\ \A j \in (1..Len(s)) \ {k} : IsWordChar(s[j])}
WellFormedFilter(s) == HyphenAt(s) # {}
FilterType(s) == SubSeq(s, 1, (CHOOSE k \in HyphenAt(s) : TRUE) - 1)
FilterCat(s) == SubSeq(s, (CHOOSE k \in HyphenAt(s) : TRUE) + 1, Len(s))

\* SESSION.get_valid_filters (session.py lines 234-260): the exception it
\* raises, "none" when the filters pass
FiltersError(filters) ==
    IF \E k \in 1..Len(filters) : ~WellFormedFilter(filters[k]) THEN "Exception"
    ELSE IF \E k \in 1..Len(filters) :
               \/ FilterCat(filters[k]) \notin DOMAIN FiltersDict
               \/ FilterType(filters[k]) \notin FiltersDict[FilterCat(filters[k])]
         THEN "Exception"
    ELSE "none"

NoStr == [raised |-> "none", str |-> <<>>]
Raises(e) == [raised |-> e, str |-> <<>>]

\* re.match(r"\d{4}s?", year): the text starts with four digits
MatchesYear(s) == Len(s) >= 4 /\ \A k \in 1..4 : IsDigit(s[k])

\* UserRated.get_year_str (lines 311-333).  Lines 326 and 331 hand the tuple
\* SESSION.year_range to range() as one argument, which raises TypeError
\* once int() has gone through: no year reaches the returns of lines 328, 333.
GetYearStr(year) ==
    IF ~TruthyStr(year) THEN NoStr
    ELSE IF ~MatchesYear(year.val) THEN Raises("Exception")
    ELSE IF "s" \in Range(year.val)
         THEN IF year.val[4] # "0" THEN Raises("Exception")
              ELSE IF ~IsInt(SubSeq(year.val, 1, Len(year.val) - 1)) THEN Raises("ValueError")
              ELSE Raises("TypeError")
    ELSE IF ~IsInt(year.val) THEN Raises("ValueError")
    ELSE Raises("TypeError")

\* UserRated.get_genre_str (lines 335-343)
GetGenreStr(genre) ==
    IF ~TruthyStr(genre) THEN NoStr
    ELSE IF genre.val \notin GenreList THEN Raises("Exception")
    ELSE [raised |-> "none", str |-> <<<<"g", "e", "n", "r", "e">>, genre.val>>]

\* UserRated.get_service_str (lines 345-353)
GetServiceStr(service) ==
    IF ~TruthyStr(service) THEN NoStr
    ELSE IF service.val \notin ServiceList THEN Raises("Exception")
    ELSE [raised |-> "none", str |-> <<<<"s", "e", "r", "v", "i", "c", "e">>, service.val>>]

\* UserRated.get_rating_str (lines 355-375).  after_decimal is bound to the
\* truth value of the membership test, so line 371 never holds and the text
\* of the rating is str(rating).
GetRatingStr(rating) ==
    IF ~TruthyInt(rating) THEN NoStr
    ELSE IF ~(rating.val % 10 \in {5, 0}) THEN Raises("Exception")
    ELSE IF ~((2 * rating.val) \div 10 \in PyRange(1, 11)) THEN Raises("ValueError")
    ELSE [raised |-> "none",
          str |-> <<<<"r", "a", "t", "e", "d">>,
                    Digits(rating.val \div 10) \o <<".">> \o Digits(rating.val % 10)>>]

\* line 292: str values are lower-cased
LowerStr(a) == IF a.none THEN a ELSE Some(Lower(a.val))

\* UserRated.__build_suburl (lines 290-306): the exception of the first part
\* that fails, or the path segments of the suburl
BuildSuburl(username, a) ==
    LET year_str == GetYearStr(LowerStr(a.year))
        genre_str == GetGenreStr(LowerStr(a.genre))
        service_str == GetServiceStr(LowerStr(a.service))
        rating_str == GetRatingStr(a.rating)
    IN  IF year_str.raised # "none" THEN year_str
        ELSE IF genre_str.raised # "none" THEN genre_str
        ELSE IF service_str.raised # "none" THEN service_str
        ELSE IF rating_str.raised # "none" THEN rating_str
        ELSE [raised |-> "none",
              str |-> <<Lower(username), <<"f", "i", "l", "m", "s">>,
                        <<"r", "a", "t", "i", "n", "g", "s">>>>
                      \o (IF a.rated_only THEN <<<<"r", "a", "t", "i", "n", "g">>>> ELSE <<>>)
                      \o rating_str.str \o year_str.str \o genre_str.str \o service_str.str
                      \o (IF a.rated_only THEN <<<<"b", "y">>, <<"T", "r", "u", "e">>>>
                          ELSE <<>>)]

\* lines 233-247: the filters and the suburl, before anything is requested
UserRatedCall ==
    /\ scenario = "newrated" /\ ur.pc = "constructed"
    /\ LET ferr == IF ur.args.filters = <<>> THEN "none" ELSE FiltersError(ur.args.filters)
           suburl == BuildSuburl(ur.username, ur.args)
       IN  ur' = IF ferr # "none"
                 THEN [ur EXCEPT !.pc = "raised", !.called = TRUE, !.error = ferr]
                 ELSE IF suburl.raised # "none"
                 THEN [ur EXCEPT !.pc = "raised", !.called = TRUE, !.error = suburl.raised]
                 ELSE [ur EXCEPT !.pc = "scrape", !.called = TRUE, !.suburl = suburl.str]
    /\ UNCHANGED <<scenario, fs, le, st, ml, fi>>

\* lines 249, 259: __scrape_rated requests page 1 of the search
UserRatedFirstRequest ==
    /\ scenario = "newrated" /\ ur.pc = "scrape"
    /\ ur' = [ur EXCEPT !.pc = "requested",
                        !.requests = Append(@, [for |-> "search",
                                                url |-> ur.suburl \o <<<<"p", "a", "g", "e">>, <<"1">>>>])]
    /\ UNCHANGED <<scenario, fs, le, st, ml, fi>>

(***************************************************************************)
(* The specification of constructing a search                              *)
(***************************************************************************)
InitConstruct ==
    /\ scenario \in {"newsearch", "newrated"}
    /\ IF scenario = "newsearch" THEN NewSearchInit ELSE fs = Idle
    /\ IF scenario = "newrated" THEN NewRatedInit ELSE ur = Idle
    /\ le = Idle /\ st = Idle /\ ml = Idle /\ fi = Idle

NextConstruct ==
    \/ FilmSearchConstruct \/ FilmSearchFirstRequest
    \/ UserRatedConstructOk \/ UserRatedConstructFail
    \/ UserRatedCall \/ UserRatedFirstRequest

SpecConstruct == InitConstruct /\ [][NextConstruct]_vars

(***************************************************************************)
(* FilmInfo.__get_bayesian_average                                         *)
(*                                                                         *)
(* The pseudo-counts up and down are computed in float arithmetic as the   *)
(* code computes them.  beta.ppf(0.05, a, b) is the point where the        *)
(* distribution function of Beta(a, b) reaches 0.05; for whole a and b     *)
(* that function is a finite binomial sum,                                 *)
(*     I_x(a, b) = sum over j in a..n of C(n, j) x^j (1-x)^(n-j),          *)
(* with n = a + b - 1, which is evaluated exactly on long integers.  The   *)
(* quantile grows with a and falls with b, so for parameters that are not  *)
(* whole it lies between the quantiles of the whole parameters around.     *)
(***************************************************************************)
Zeros(n) == [k \in 1..n |-> 0]
FloatZero == [m |-> <<>>, e |-> 0]
OneAndHalf == [m |-> <<1, 1>>, e |-> -1]          \* the float 1.5

\* float(n) for a Python int 0 <= n < 2^30
IntToFloat(n) == [m |-> IntBits(n), e |-> 0]

\* limbs of (a[1..k] + b[1..k] + carry), a and b of the same length
RECURSIVE AddLimbs(_, _, _, _)
AddLimbs(a, b, k, carry) ==
    IF k = 0 THEN <<carry>>
    ELSE Append(AddLimbs(a, b, k - 1, (a[k] + b[k] + carry) \div LimbBase),
                (a[k] + b[k] + carry) % LimbBase)

PadLimbs(l, n) == Zeros(n - Len(l)) \o l

\* x + y for floats x, y >= 0: the exact sum, rounded
PyAddFloat(x, y) ==
    IF x.m = <<>> THEN y
    ELSE IF y.m = <<>> THEN x
    ELSE LET e  == Min(x.e, y.e)
             xl == BitsToLimbs(x.m \o Zeros(x.e - e))
             yl == BitsToLimbs(y.m \o Zeros(y.e - e))
             n  == Max(Len(xl), Len(yl))
         IN  RoundBits(LimbsToBits(AddLimbs(PadLimbs(xl, n), PadLimbs(yl, n), n, 0)),
                       e, FALSE)

\* x * y for a float x and a float y whose bits stand for less than 2^15
PyMulFloatShort(x, y) ==
    LET p == PyMulIntFloat(BitsToInt(y.m), x)
    IN  IF p.m = <<>> THEN p ELSE [p EXCEPT !.e = @ + y.e]

\* long division of limbs[i..] by d (0 < d < 2^15), r carried in
RECURSIVE DivLimbs(_, _, _, _)
DivLimbs(limbs, d, i, r) ==
    IF i > Len(limbs) THEN <<>>
    ELSE <<(r * LimbBase + limbs[i]) \div d>>
         \o DivLimbs(limbs, d, i + 1, (r * LimbBase + limbs[i]) % d)

\* the remainder of that division
RECURSIVE DivRem(_, _, _, _)
DivRem(limbs, d, i, r) ==
    IF i > Len(limbs) THEN r
    ELSE DivRem(limbs, d, i + 1, (r * LimbBase + limbs[i]) % d)

\* x / y for a float x and a float y whose bits stand for less than 2^15:
\* the correctly rounded quotient
PyDivFloatShort(x, y) ==
    IF x.m = <<>> THEN FloatZero
    ELSE LET nlimbs == 5
             d      == BitsToInt(y.m)
             xl     == BitsToLimbs(x.m)
             r      == DivRem(xl, d, 1, 0)
         IN  RoundBits(LimbsToBits(DivLimbs(xl, d, 1, 0)) \o LimbsToBits(FracLimbs(r, d, nlimbs)),
                       x.e - y.e - nlimbs * LimbBits,
                       FracRem(r, d, nlimbs) # 0)

\* sum(f[1..n]) taken from left to right
RECURSIVE SumFloats(_, _)
SumFloats(f, n) == IF n = 0 THEN FloatZero ELSE PyAddFloat(SumFloats(f, n - 1), f[n])

\* math.floor(x) for a float x >= 0 of moderate size
PyFloor(x) ==
    IF x.m = <<>> THEN 0
    ELSE IF x.e >= 0 THEN BitsToInt(x.m \o Zeros(x.e))
    ELSE IF Len(x.m) + x.e <= 0 THEN 0
    ELSE BitsToInt(SubSeq(x.m, 1, Len(x.m) + x.e))

\* the default a0 of __get_bayesian_average
PriorStrength == 9

\* lines 364-366: up
BayesUp(h) ==
    SumFloats([n \in Scores |->
                 LET t == PyMulIntFloat(h[n], PyTrueDiv(n - 1, 9))
                 IN  IF n = 10 THEN PyDivFloatShort(t, OneAndHalf) ELSE t], 10)

\* lines 368-370: down
BayesDown(h) ==
    SumFloats([n \in Scores |->
                 LET t == PyMulIntFloat(h[n], PyTrueDiv(9 - (n - 1), 9))
                 IN  IF n = 1 THEN PyMulFloatShort(t, OneAndHalf) ELSE t], 10)

\* long integers: limbs in base 2^15, most significant first
RECURSIVE TrimLimbs(_)
TrimLimbs(l) == IF Len(l) > 1 /\ l[1] = 0 THEN TrimLimbs(Tail(l)) ELSE l

BigMul(l, n) == TrimLimbs(MulLimbs(l, n, Len(l), 0))
BigDiv(l, d) == TrimLimbs(DivLimbs(l, d, 1, 0))
BigAdd(a, b) ==
    LET n == Max(Len(a), Len(b))
    IN  TrimLimbs(AddLimbs(PadLimbs(a, n), PadLimbs(b, n), n, 0))

\* Step(... Step(Step(acc, lo), lo + 1) ..., hi), halving the range; the
\* left half is evaluated (left = left) before the right half is entered
RECURSIVE FoldRange(_, _, _, _)
FoldRange(Step(_, _), lo, hi, acc) ==
    IF lo > hi THEN acc
    ELSE IF lo = hi THEN Step(acc, lo)
    ELSE LET left == FoldRange(Step, lo, (lo + hi) \div 2, acc)
         IN  IF left = left THEN FoldRange(Step, (lo + hi) \div 2 + 1, hi, left) ELSE left

\* b^n for 0 < b < 2^15
BigPow(b, n) == FoldRange(LAMBDA acc, k : BigMul(acc, b), 1, n, <<1>>)

\* a < b for trimmed long integers
BigLess(a, b) ==
    \/ Len(a) < Len(b)
    \/ /\ Len(a) = Len(b)
       /\ \E k \in 1..Len(a) : a[k] < b[k] /\ \A j \in 1..(k - 1) : a[j] = b[j]

\* sum over j in a..n of C(n, j) p^j q^(n-j): the term C(n, j) p^j q^(n-j)
\* comes from the term before it and is added once j has reached a
BinomialTail(n, p, q, a) ==
    LET Step(acc, j) ==
            LET term == BigDiv(BigMul(acc.term, (n - j + 1) * p), j * q)
            IN  [term |-> term, sum |-> IF j >= a THEN BigAdd(acc.sum, term) ELSE acc.sum]
        first == BigPow(q, n)
    IN  IF first = first
        THEN FoldRange(Step, 1, n, [term |-> first, sum |-> IF a = 0 THEN first ELSE <<0>>]).sum
        ELSE first

\* the distribution function of Beta(a, b) at x.num/x.den, for whole a, b >= 1,
\* against the level 0.05: -1 below it, 0 on it, 1 above it
BetaCdfVsLevel(a, b, x) ==
    LET n    == a + b - 1
        tail == BinomialTail(n, x.num, x.den - x.num, a)
        lhs  == BigMul(tail, 20)
        rhs  == BigPow(x.den, n)
    IN  IF BigLess(lhs, rhs) THEN -1 ELSE IF BigLess(rhs, lhs) THEN 1 ELSE 0

\* the quantile a rating t = num/den stands for: t = q * 4.5 + 0.5
QuantileOf(t) == [num |-> 2 * t.num - t.den, den |-> 9 * t.den]

\* FilmInfo.__get_bayesian_average(d) against a rating t: "above" when the
\* estimate is greater than t, "below" when it is less, "at" when it is t,
\* "open" when the whole parameters around up + a0 and down + a0 do not decide
BayesianVsRating(r, t) ==
    IF r.absent \/ \A n \in Scores : r.hist[n] = 0
    THEN IF 11 * t.den > 4 * t.num THEN "above"
         ELSE IF 11 * t.den < 4 * t.num THEN "below" ELSE "at"
    ELSE LET alpha == PyAddFloat(BayesUp(r.hist), IntToFloat(PriorStrength))
             beta  == PyAddFloat(BayesDown(r.hist), IntToFloat(PriorStrength))
             x     == QuantileOf(t)
             Decide(alo, ahi, blo, bhi) ==
                 IF BetaCdfVsLevel(alo, bhi, x) < 0 THEN "above"
                 ELSE IF BetaCdfVsLevel(ahi, blo, x) > 0 THEN "below"
                 ELSE "open"
         IN  CHOOSE v \in {Decide(alo, ahi, blo, bhi) :
                              alo \in {PyFloor(alpha)}, ahi \in {PyCeil(alpha)},
                              blo \in {PyFloor(beta)}, bhi \in {PyCeil(beta)}} : TRUE

\* histograms of the estimate: counts on the buckets that vary
BayesCountChoices == {0, 9}
BayesScores == {1, 5, 9, 10}
BayesHistChoices ==
    {h \in [Scores -> BayesCountChoices] : \A n \in Scores \ BayesScores : h[n] = 0}

\* ratings the estimate is compared with: 1.6 (is_bad), 2.6, 2.75 (the fallback)
RatingLevels == {[num |-> 8, den |-> 5], [num |-> 13, den |-> 5], [num |-> 11, den |-> 4]}

BayesInit ==
    \E h \in BayesHistChoices, t \in RatingLevels :
        fi = [pc |-> "call", ratings |-> [absent |-> FALSE, hist |-> h], level |-> t,
              verdict |-> "none", before |-> "none", from |-> 0, to |-> 0]

\* bayesian_average is read
CallBayesianVsRating ==
    /\ scenario = "bayes" /\ fi.pc = "call"
    /\ fi' = [fi EXCEPT !.pc = "returned",
                        !.verdict = BayesianVsRating(fi.ratings, fi.level)]
    /\ UNCHANGED <<scenario, fs, ur, le, st, ml>>

\* the film's page is read again after ratings of score i were changed to
\* the higher score j: the total stays
ShiftRatingsUp ==
    /\ scenario = "bayes" /\ fi.pc = "returned"
    /\ \E i \in BayesScores, j \in BayesScores, m \in BayesCountChoices \ {0} :
          /\ i < j /\ fi.ratings.hist[i] >= m
          /\ fi' = [fi EXCEPT !.pc = "call",
                              !.ratings.hist = [@ EXCEPT ![i] = @ - m, ![j] = @ + m],
                              !.before = fi.verdict, !.from = i, !.to = j]
    /\ UNCHANGED <<scenario, fs, ur, le, st, ml>>

InitBayes ==
    /\ scenario = "bayes"
    /\ BayesInit
    /\ fs = Idle /\ ur = Idle /\ le = Idle /\ st = Idle /\ ml = Idle

NextBayes == CallBayesianVsRating \/ ShiftRatingsUp

SpecBayes == InitBayes /\ [][NextBayes]_vars

(***************************************************************************)
(* FilmSearch.__call__ run to its end: the call is sequential code and a   *)
(* request returns or raises, so a step that can be taken is taken in the  *)
(* end                                                                     *)
(***************************************************************************)
InitSearch ==
    /\ scenario = "search"
    /\ SearchInit
    /\ ur = Idle /\ le = Idle /\ st = Idle /\ ml = Idle /\ fi = Idle

NextSearch ==
    \/ SearchProbeOk \/ SearchProbeFail \/ SearchBatch
    \/ SearchScrapeOk \/ SearchScrapeFail \/ SearchBatchEnd

\* the steps the call is bound to take once it can: SearchProbeOk is enabled
\* exactly when SearchProbeFail is (the request was sent and comes back one
\* way or the other), so the call halts nowhere but at its return or raise
SearchProceeds ==
    \/ SearchProbeFail \/ SearchBatch
    \/ SearchScrapeOk \/ SearchScrapeFail \/ SearchBatchEnd

SpecSearchFair == InitSearch /\ [][NextSearch]_vars /\ WF_vars(SearchProceeds)

(***************************************************************************)
(* MyList.clear                                                            *)
(***************************************************************************)
KwPublic(value) == [has |-> {"public"}, val |-> [k \in DataKeys |-> value]]

ClearInit ==
    /\ scenario = "clear"
    /\ \E cur \in CurrentChoices, d \in DescriptionChoices, p \in BOOLEAN, r \in BOOLEAN :
          LET list == [ListRec(cur, d) EXCEPT !.public = p, !.ranked = r]
          IN  ml = [pc |-> "call", op |-> "clear", stage |-> "public",
                    soup |-> list, remote |-> list, before |-> list,
                    user_defined_name |-> list.name, new_attrs |-> list,
                    posts |-> <<>>, ret |-> "none", failure |-> "none", error |-> "none"]

\* a clear that goes straight to the update of the entries
ClearSetPublicSkipped ==
    /\ scenario = "clear" /\ ml.pc = "call"
    /\ ml' = [ml EXCEPT !.pc = "entries", !.ret = "None"]
    /\ UNCHANGED <<scenario, fs, ur, le, st, fi>>

\* line 688, self.public = False: the setter of lines 740-751 returns False
\* on a list without entries, returns on a list that is private already, and
\* calls update(public=False) (lines 661-673) otherwise
ClearSetPublic ==
    /\ scenario = "clear" /\ ml.pc = "call"
    /\ ml' = IF ml.soup.entries = <<>>
             THEN [ml EXCEPT !.pc = "entries", !.ret = "False"]
             ELSE IF ml.soup.public = FALSE
             THEN [ml EXCEPT !.pc = "entries", !.ret = "None"]
             ELSE [ml EXCEPT !.pc = "post", !.stage = "public",
                             !.new_attrs = NewAttrs(ml.soup, KwPublic(FALSE), FALSE, <<>>)]
    /\ UNCHANGED <<scenario, fs, ur, le, st, fi>>

\* line 689, self.update(entries=[]), up to the POST
ClearUpdateEntries ==
    /\ scenario = "clear" /\ ml.pc = "entries"
    /\ ml' = [ml EXCEPT !.pc = "post", !.stage = "entries",
                        !.new_attrs = NewAttrs(ml.soup, KwEntries(<<>>), FALSE, <<>>)]
    /\ UNCHANGED <<scenario, fs, ur, le, st, fi>>

\* lines 673-679 of the update under way: the POST goes through
SavePostOk ==
    /\ scenario \in {"clear", "dedupe"} /\ ml.pc = "post"
    /\ LET post_data == MakePostData(ml.new_attrs)
       IN  ml' = [ml EXCEPT !.pc = "load",
                            !.remote = Saved(post_data),
                            !.posts = Append(@, post_data),
                            !.user_defined_name =
                                IF ml.new_attrs.name # "" THEN ml.new_attrs.name ELSE @]
    /\ UNCHANGED <<scenario, fs, ur, le, st, fi>>

\* line 676 raises
SavePostFail ==
    /\ scenario \in {"clear", "dedupe"} /\ ml.pc = "post"
    /\ \E e \in Errors :
          ml' = [ml EXCEPT !.pc = "raised", !.failure = e, !.error = e]
    /\ UNCHANGED <<scenario, fs, ur, le, st, fi>>

\* line 682, self.load(): the update returns, to line 689 when it was the
\* setter's
SaveLoadOk ==
    /\ scenario \in {"clear", "dedupe"} /\ ml.pc = "load"
    /\ ml' = [ml EXCEPT !.pc = IF ml.stage = "public" THEN "entries" ELSE "done",
                        !.soup = ml.remote]
    /\ UNCHANGED <<scenario, fs, ur, le, st, fi>>

\* line 682 raises
SaveLoadFail ==
    /\ scenario \in {"clear", "dedupe"} /\ ml.pc = "load"
    /\ \E e \in Errors :
          ml' = [ml EXCEPT !.pc = "raised", !.failure = e, !.error = e]
    /\ UNCHANGED <<scenario, fs, ur, le, st, fi>>

InitClear ==
    /\ ClearInit
    /\ fs = Idle /\ ur = Idle /\ le = Idle /\ st = Idle /\ fi = Idle

NextClear ==
    \/ ClearSetPublic \/ ClearUpdateEntries
    \/ SavePostOk \/ SavePostFail \/ SaveLoadOk \/ SaveLoadFail

SpecClear == InitClear /\ [][NextClear]_vars

(***************************************************************************)
(* MyList.__init__: remove_duplicates on the list just loaded              *)
(***************************************************************************)
DedupeLen == MaxLen + 1

\* the entries an edit page can show when the site let duplicates in
DuplicateChoices == SeqsUpTo(PlainDictElems \cup {DictE(1, 1)}, DedupeLen)

DedupeInit ==
    /\ scenario = "dedupe"
    /\ \E cur \in DuplicateChoices, d \in DescriptionChoices :
          LET list == ListRec(cur, d)
          IN  ml = [pc |-> "call", op |-> "remove_duplicates", stage |-> "entries",
                    soup |-> list, remote |-> list, before |-> list,
                    user_defined_name |-> list.name, new_attrs |-> list,
                    posts |-> <<>>, ret |-> "none", failure |-> "none", error |-> "none"]

\* format_entries(n) for the set n, which is gone through in the order `order`
FormatSet(order) == [k \in 1..Len(order) |-> DictE(order[k], 0)]

\* lines 481-488 and, through replace (lines 695-704), update up to the POST.
\* set(entries) keeps no order of its own: the ids come in any order.
RemoveDuplicates ==
    /\ scenario = "dedupe" /\ ml.pc = "call"
    /\ LET entries == KeysOf(ml.soup.entries)
           n == Range(entries)
       IN  IF Len(entries) = Cardinality(n)
           THEN ml' = [ml EXCEPT !.pc = "done", !.ret = "None"]
           ELSE \E order \in Orders(n) :
                   LET replacement_entries == FormatSet(order)
                       merged_entries == MergeEntries(<<replacement_entries>>)
                   IN  ml' = [ml EXCEPT !.pc = "post",
                                        !.new_attrs =
                                            NewAttrs(ml.soup,
                                                     KwEntries(ReplacementEntries(merged_entries)),
                                                     FALSE, <<>>)]
    /\ UNCHANGED <<scenario, fs, ur, le, st, fi>>

InitDedupe ==
    /\ DedupeInit
    /\ fs = Idle /\ ur = Idle /\ le = Idle /\ st = Idle /\ fi = Idle

NextDedupe ==
    \/ RemoveDuplicates
    \/ SavePostOk \/ SavePostFail \/ SaveLoadOk \/ SaveLoadFail

SpecDedupe == InitDedupe /\ [][NextDedupe]_vars

(***************************************************************************)
(* Properties of the collectors                                            *)
(***************************************************************************)
\* the records of pages first..last of a listing, in page order
PagesConcat(total, per, first, last) ==
    Flatten([k \in 1..(last - first + 1) |-> SitePage(total, per, first + k - 1)])

\* availablePages as the specification defines it: ceil(totalPages * percentCap/100)
ExactAvailablePages(f) == CeilDiv(NumPages(f.numFilms) * f.percent, 100)

\* endPage as the specification defines it
ExactEndPage(f) ==
    IF f.hasLimit THEN Min(f.startPage + f.page_limit, ExactAvailablePages(f) + 1)
    ELSE ExactAvailablePages(f) + 1

\* C1: a finished FilmSearch.__call__ returns the records of exactly the pages
\* [startPage, endPage), in page order, with availablePages =
\* ceil(totalPages * percentCap/100) and endPage = min(startPage + pageLimit,
\* availablePages + 1) when pageLimit is given, availablePages + 1 otherwise.
C1_CollectReturnsPageRange ==
    (scenario = "search" /\ fs.pc = "done") =>
        fs.result = PagesConcat(fs.numFilms, FilmsPerSearchPage,
                                fs.startPage, ExactEndPage(fs) - 1)

\* C2: when startPage is greater than availablePages the call, once its page
\* count is known, has returned the empty sequence, has raised nothing and has
\* requested no record page.
C2_StartBeyondAvailableIsEmpty ==
    (/\ scenario = "search"
     /\ fs.startPage > ExactAvailablePages(fs)
     /\ fs.pc # "call"
     /\ ~(fs.pc = "raised" /\ fs.requests = <<0>>)) =>
        /\ fs.pc = "done"
        /\ fs.result = <<>>
        /\ \A k \in 1..Len(fs.requests) : fs.requests[k] = 0

\* the frame of the collector that runs
Frame == CASE scenario = "search" -> fs
           [] scenario = "rated" -> ur
           [] scenario = "list" -> le
           [] scenario = "studio" -> st
           [] OTHER -> ml

\* `failure` is the error SESSION.request raised, `error` the one the caller gets
C3_AbortedState ==
    (scenario \in {"search", "rated", "list", "studio"} /\ Frame.failure # "none") =>
        /\ Frame.pc = "raised"
        /\ Frame.error = Frame.failure
        /\ Frame.result = <<>>
        /\ \A j, k \in 1..Len(Frame.requests) :
               Frame.requests[j] = Frame.requests[k] => j = k

C3_AbortStep ==
    (scenario \in {"search", "rated", "list", "studio"}) =>
        /\ (Frame.failure # "none" => Frame' = Frame)
        /\ C3_AbortedState'

\* C3: a failed page fetch aborts the collection (FilmSearch.__call__,
\* UserRated.__scrape_rated, LetterboxdList.entries, Studio.entries): the call
\* ends raised with the collaborator's own error, returns no records, requests
\* no further page and never requests a page twice.
C3_FetchFailureAborts == [][C3_AbortStep]_vars

C3_Witness ==
    scenario = "search" /\ fs.pc = "raised" /\ fs.film_data # <<>>
    /\ fs.i < fs.end_page - 1

\* C4: a finished rated-film collection returns at most `limit` records: the
\* prefix of length min(limit, records fetched) of pages
\* 1..min(ceil(limit/18), numPages) joined in page order.
C4_RatedResultIsPrefix ==
    (scenario = "rated" /\ ur.pc = "done") =>
        LET last    == Min(CeilDiv(ur.limit, FilmsPerRatedPage), RatedNumPages(ur.total))
            fetched == PagesConcat(ur.total, FilmsPerRatedPage, 1, last)
        IN  /\ Len(ur.result) <= ur.limit
            /\ ur.result = Take(fetched, Min(ur.limit, Len(fetched)))

C4_Witness ==
    /\ scenario = "rated" /\ ur.pc = "done"
    /\ Len(ur.film_ids) > ur.limit
    /\ ur.limit % FilmsPerRatedPage # 0
    /\ ur.end_page = 2
    /\ Len(ur.result) = ur.limit


(***************************************************************************)
(* Properties of the record-set algebra and of the master list             *)
(***************************************************************************)
\* the elements of a flat list whose key has not occurred before, in order
RECURSIVE FirstByKey(_, _)
FirstByKey(flat, seen) ==
    IF flat = <<>> THEN <<>>
    ELSE IF Head(flat).filmId \in seen THEN FirstByKey(Tail(flat), seen)
         ELSE <<Head(flat)>> \o FirstByKey(Tail(flat), seen \cup {Head(flat).filmId})

\* C5: the merge of the argument lists is their concatenation in argument
\* order with every element dropped whose key occurred earlier, so each key
\* occurs once, at the place of its first occurrence.
C5_MergeFirstOccurrenceByKey ==
    (scenario = "merge" /\ ml.pc = "done") =>
        /\ ml.merged = FirstByKey(Flatten(ml.args), {})
        /\ NoDupKeys(ml.merged)

\* C6: remove submits exactly the current entries whose key is not among the
\* keys of the entries passed for exclusion, in their order and with their
\* payloads, whether those were passed as bare ids or as {'filmId': id}.
C6_RemoveSubmitsDifference ==
    (scenario = "edit" /\ ml.op = "remove" /\ ml.posts # <<>>) =>
        ml.posts[1].entries =
            SelectSeq(ml.before.entries, LAMBDA e : e.filmId \notin KeySet(Flatten(ml.args)))

SourceKeys(src) ==
    UNION {Range(Flatten(g)) : g \in {src.child_lists, src.individuals, src.studios, src.users}}

\* the sources of a master list, whatever their group
AllSources(src) == src.child_lists \o src.individuals \o src.studios \o src.users

\* C8: the final entries hold exactly the keys that occur in some source and
\* not in the exclude list, each once, in strictly descending order; with no
\* exclusion and one source the final key set is the key set of that source.
C8_FinalEntriesAreSourcesMinusExclude ==
    (scenario = "master" /\ ml.pc # "init") =>
        LET keys == KeysOf(ml.final_entries)
            src  == ml.sources
        IN  /\ Range(keys) = SourceKeys(src) \ Range(src.exclude)
            /\ \A j, k \in 1..Len(keys) : j < k => keys[j] > keys[k]
            /\ \A k \in 1..Len(keys) : ml.final_entries[k] = DictE(keys[k], 0)
            /\ (src.exclude = <<>> /\ Len(AllSources(src)) = 1) =>
                   Range(keys) = Range(AllSources(src)[1])

\* final entries were built from sources that share a key, with an exclude
\* list that names a key of a source
C8_Witness ==
    /\ scenario = "master" /\ ml.pc = "call"
    /\ Len(ml.final_entries) >= 2
    /\ ml.sources.has_exclude /\ Range(ml.sources.exclude) \cap SourceKeys(ml.sources) # {}
    /\ Range(Flatten(ml.sources.child_lists)) \cap Range(Flatten(ml.sources.studios)) # {}

\* the part of a description after its first separator
RECURSIVE AfterSeparator(_)
AfterSeparator(d) ==
    IF d = <<>> THEN <<>> ELSE IF Head(d) = SEP THEN Tail(d) ELSE AfterSeparator(Tail(d))

\* the id lists of the sections of a description with the given title
SectionIds(d, title) == {d[k].ids : k \in {j \in 1..Len(d) : d[j].t = title}}

\* the sections a diff of old against new keys must show
DiffShown(generated, old, new) ==
    /\ SectionIds(generated, "added") =
           IF new \ old = {} THEN {} ELSE {o \in SectionIds(generated, "added") : Range(o) = new \ old}
    /\ SectionIds(generated, "removed") =
           IF old \ new = {} THEN {} ELSE {o \in SectionIds(generated, "removed") : Range(o) = old \ new}
    /\ (new \ old # {}) => SectionIds(generated, "added") # {}
    /\ (old \ new # {}) => SectionIds(generated, "removed") # {}

\* C9: an update that shows changes takes the diff against the entries of the
\* snapshot it started from: added = new - old, removed = old - new; when the
\* key sets are equal nothing is shown and the description stays as it was.
C9_DiffAgainstSnapshot ==
    (scenario = "edit" /\ ml.show_changes /\ ml.pc \in {"post", "load", "done"} /\ ml.ret = "none") =>
        LET old == KeySet(ml.before.entries)
            new == KeySet(ml.new_attrs.entries)
        IN  IF new = old
            THEN ml.new_attrs.description = ml.before.description
            ELSE /\ Split0(ml.new_attrs.description) = RStrip(Split0(ml.before.description)) \o <<NN>>
                 /\ DiffShown(AfterSeparator(ml.new_attrs.description), old, new)

\* an update that shows changes both added and removed entries, and was posted
C9_Witness ==
    /\ scenario = "edit" /\ ml.show_changes /\ ml.pc = "done" /\ ml.posts # <<>>
    /\ KeySet(ml.soup.entries) \ KeySet(ml.before.entries) # {}
    /\ KeySet(ml.before.entries) \ KeySet(ml.soup.entries) # {}
    /\ ml.posts[1].notes # ml.before.description

\* C10: a master update whose final entries differ from the entries of the
\* snapshot writes a description that holds, besides the source sections, a
\* section of the added or removed films.
C10_MasterDescriptionShowsDiff ==
    (scenario = "master" /\ ml.posts # <<>>
     /\ KeySet(ml.final_entries) # KeySet(ml.before.entries)) =>
        LET generated == AfterSeparator(ml.posts[1].notes)
        IN  DiffShown(generated, KeySet(ml.before.entries), KeySet(ml.final_entries))


(***************************************************************************)
(* Properties of MyList.update                                             *)
(***************************************************************************)
\* the added / removed sections of a generated description
DiffSections(generated) ==
    {generated[k] : k \in {j \in 1..Len(generated) : generated[j].t \in {"added", "removed"}}}

\* C11: the section of added and removed films that a change diff writes
\* lists at most 25 added and at most 25 removed films, however many keys were
\* added or removed.
C11_DiffSectionCapped ==
    (scenario = "update" /\ ml.show_changes /\ ml.posts # <<>>) =>
        LET old == KeySet(ml.before.entries)
            new == KeySet(ml.new_attrs.entries)
            generated == AfterSeparator(ml.posts[1].notes)
        IN  new # old =>
              /\ \A sec \in DiffSections(generated) :
                    /\ Len(sec.ids) <= 25
                    /\ sec.t = "added" => Len(sec.ids) = Min(25, Cardinality(new \ old))
                    /\ sec.t = "removed" => Len(sec.ids) = Min(25, Cardinality(old \ new))

\* more than 25 films were added and more than 25 removed, and the
\* description that was sent lists 25 of each
C11_Witness ==
    /\ scenario = "update" /\ ml.show_changes /\ ml.posts # <<>>
    /\ Cardinality(KeySet(ml.new_attrs.entries) \ KeySet(ml.before.entries)) > 25
    /\ Cardinality(KeySet(ml.before.entries) \ KeySet(ml.new_attrs.entries)) > 25
    /\ \E a, r \in DiffSections(AfterSeparator(ml.posts[1].notes)) :
          a.t = "added" /\ r.t = "removed" /\ Len(a.ids) = 25 /\ Len(r.ids) = 25

\* C13: the one request an update sends carries the whole attribute set: the
\* value passed for every attribute named in the call, and the value of the
\* snapshot for every attribute not named.
C13_UpdateSendsOverridesAndSnapshot ==
    (scenario = "update" /\ ml.posts # <<>>) =>
        /\ Len(ml.posts) = 1
        /\ \A k \in DataKeys :
              Saved(ml.posts[1])[k] =
                  IF k \in ml.args.has THEN ml.args.val[k] ELSE ml.before[k]

\* C14: the snapshot and the name that locates the list change only after the
\* save request succeeded; when it fails the caller gets its error and the
\* snapshot and the name are as before the call.
C14_SnapshotRefreshedOnlyAfterSave ==
    scenario = "update" =>
        /\ ml.posts = <<>> => ml.soup = ml.before /\ ml.user_defined_name = ml.before.name
        /\ (ml.posts = <<>> /\ ml.failure # "none") => ml.pc = "raised" /\ ml.error = ml.failure
        /\ ml.soup # ml.before => ml.pc = "done" /\ ml.soup = Saved(ml.posts[1])

\* the save request of an update that renames the list has failed
C14_Witness ==
    /\ scenario = "update" /\ ~ml.show_changes
    /\ ml.pc = "raised" /\ ml.failure # "none" /\ ml.posts = <<>>
    /\ ml.new_attrs.name = "renamed" /\ ml.new_attrs.entries # ml.before.entries


(***************************************************************************)
(* Properties of repeated master updates                                   *)
(***************************************************************************)
\* the sections a run with the given sources generates
GeneratedSections(src) ==
    Section("lists", src.child_lists) \o Section("individuals", src.individuals)
        \o Section("studios", src.studios) \o Section("users", src.users)

SeparatorCount(d) == Cardinality({k \in 1..Len(d) : d[k] = SEP})

\* C12: after any number of master updates the description is the text the
\* user wrote (the text before the first separator), the separator, and the
\* content generated by the latest run only; the separator occurs once.
C12_DescriptionRegenerated ==
    (scenario = "master" /\ ml.pc = "done" /\ ml.posts # <<>>) =>
        LET d == ml.soup.description
            user == Split0(ml.before.description)
        IN  /\ RStrip(Split0(d)) = RStrip(user)
            /\ AfterSeparator(d) = <<NN>> \o GeneratedSections(ml.sources)
            /\ SeparatorCount(d) = 1

\* two runs with different sources have updated a list whose description
\* first held the text of the user only
C12_Witness ==
    /\ scenario = "master" /\ ml.pc = "done" /\ Len(ml.posts) = 2
    /\ SEP \notin Range(ml.before.description) /\ ml.before.description # <<>>
    /\ AfterSeparator(ml.posts[1].notes) # <<NN>>
    /\ AfterSeparator(ml.posts[2].notes) # <<NN>>
    /\ ml.posts[1].notes # ml.posts[2].notes


(***************************************************************************)
(* Properties of the rating statistics                                     *)
(***************************************************************************)
\* the histogram a film was given, bucket by bucket
Count(n) == IF fi.ratings.absent THEN 0 ELSE fi.ratings.hist[n]
Total == Count(1) + Count(2) + Count(3) + Count(4) + Count(5)
         + Count(6) + Count(7) + Count(8) + Count(9) + Count(10)
WeightedSum == 1 * Count(1) + 2 * Count(2) + 3 * Count(3) + 4 * Count(4) + 5 * Count(5)
               + 6 * Count(6) + 7 * Count(7) + 8 * Count(8) + 9 * Count(9) + 10 * Count(10)

Returns(fn) == scenario = "ratings" /\ fi.owner = "film" /\ fi.fn = fn /\ fi.pc = "done"
Called(fn) == scenario = "ratings" /\ fi.owner = "film" /\ fi.fn = fn /\ fi.pc \in {"done", "raised"}

\* floor(x * 2^k) of a float x, and whether x * 2^k is a whole number
FloorScaled(x, k) ==
    LET cut == Len(x.m) + x.e + k
    IN  IF x.m = <<>> \/ cut <= 0 THEN 0
        ELSE IF cut <= Len(x.m) THEN BitsToInt(SubSeq(x.m, 1, cut))
        ELSE BitsToInt(x.m \o [j \in 1..(cut - Len(x.m)) |-> 0])
WholeScaled(x, k) ==
    \A j \in 1..Len(x.m) : j > Len(x.m) + x.e + k => x.m[j] = 0

\* C15: the mean of a histogram is weightedSum / total * 0.5, with
\* weightedSum the sum of score * count over the buckets 1..10 and total the
\* sum of the counts; it lies in [0, 5] when total > 0 and is 0 when total = 0.
C15_MeanIsHalfWeightedSumOverTotal ==
    Returns("true_avg_rating") =>
        IF Total = 0 THEN fi.result = IntV(0)
        ELSE /\ fi.result.kind = "float"
             /\ FloorScaled(fi.result.f, 12) = (WeightedSum * 2^11) \div Total
             /\ (WeightedSum * 2^11) % Total = 0 => WholeScaled(fi.result.f, 12)
             /\ PyCeil(fi.result.f) <= 5

\* the mean of six ratings was taken, a quotient no float holds exactly
C15_Witness ==
    /\ Returns("true_avg_rating")
    /\ Total = 6 /\ WeightedSum % Total # 0

\* the value the claim names as the fallback of a statistic
EmptyFallback(fn) ==
    CASE fn \in {"get_total_ratings", "total_rating_score", "true_avg_rating"} -> IntV(0)
      [] fn \in {"ironic_ratings", "is_hated", "is_bad", "is_good"} -> BoolV(FALSE)
      [] fn = "get_slanted_avg_rating" -> IntV(fi.fallback)
      [] OTHER -> FloatV(PyTrueDiv(11, 4))

\* C16: for an absent or all-zero histogram no statistic raises, whatever
\* cutoff and fallback it is given: it returns its fallback value.
C16_NoStatisticRaisesOnEmpty ==
    (scenario = "ratings" /\ fi.owner = "film" /\ fi.fn # "none" /\ Total = 0) =>
        fi.pc = "done" /\ fi.result = EmptyFallback(fi.fn)

\* C17: the slanted mean is exactly the configured fallback whenever the
\* total is below the cutoff, whatever the histogram holds.
C17_SlantedFallbackBelowCutoff ==
    (Called("get_slanted_avg_rating") /\ Total < fi.cutoff) =>
        fi.pc = "done" /\ fi.result = IntV(fi.fallback)

\* a film with ratings, fewer than the cutoff, was asked for its slanted mean
C17_Witness ==
    /\ Called("get_slanted_avg_rating")
    /\ Total > 0 /\ Total < fi.cutoff /\ Count(10) > 0 /\ fi.fallback = 0

\* the bucket with the highest count among the buckets D, the first of them
\* in bucket order when several share it
FirstMost(D) == CHOOSE k \in D : \A j \in D : Count(j) < Count(k) \/ (Count(j) = Count(k) /\ k <= j)

\* C18: a film is ironic if and only if it has at least 10 ratings and its
\* two most frequent buckets are bucket 1 and bucket 10.
C18_IronicIffExtremesLead ==
    Returns("ironic_ratings") =>
        (fi.result.b <=>
            (Total >= 10 /\ {FirstMost(Scores), FirstMost(Scores \ {FirstMost(Scores)})} = {1, 10}))

\* C19: when several buckets share the highest count, the most frequent
\* bucket is the first of them in bucket order: a film with enough ratings is
\* hated exactly when that bucket is bucket 1.
C19_MostFrequentIsFirstOfTies ==
    (Returns("is_hated") /\ Total >= fi.cutoff /\ ~fi.ratings.absent) =>
        (fi.result.b <=> FirstMost(Scores) = 1)

RECURSIVE IntOf(_)
IntOf(s) == IF s = <<>> THEN 0
            ELSE 10 * IntOf(SubSeq(s, 1, Len(s) - 1))
                 + (CHOOSE d \in 0..9 : DigitChars[d + 1] = s[Len(s)])

\* the arguments of FilmSearch that its documentation rules out
SearchArgsInvalid(a) ==
    \/ ~a.year.none /\ ~a.decade.none
    \/ ~a.year.none /\ a.year.val \notin YearRange[1]..(YearRange[2] - 1)
    \/ ~a.decade.none /\ ~(/\ a.decade.val \in YearRange[1]..(YearRange[2] - 1)
                           /\ a.decade.val % 10 = 0)
    \/ ~a.genre.none /\ Lower(a.genre.val) \notin GenreList
    \/ ~a.country.none /\ Lower(a.country.val) \notin {Lower(r) : r \in RegionKeys}
    \/ ~a.language.none /\ Lower(a.language.val) \notin {Lower(l) : l \in LanguageKeys}
    \/ a.sort_by.none \/ a.sort_by.val \notin SortbyList

\* a year of four digits or a decade of four digits and an s, within the
\* years of the site
YearTextValid(s) ==
    \/ Len(s) = 4 /\ IsInt(s) /\ IntOf(s) \in YearRange[1]..(YearRange[2] - 1)
    \/ /\ Len(s) = 5 /\ IsInt(SubSeq(s, 1, 4)) /\ Lower(s)[5] = "s" /\ s[4] = "0"
       /\ IntOf(SubSeq(s, 1, 4)) \in YearRange[1]..(YearRange[2] - 1)

\* the arguments of UserRated.__call__ that its documentation rules out
RatedArgsInvalid(a) ==
    \/ ~a.year.none /\ ~YearTextValid(a.year.val)
    \/ ~a.genre.none /\ Lower(a.genre.val) \notin GenreList
    \/ ~a.service.none /\ Lower(a.service.val) \notin {Lower(s) : s \in ServiceList}
    \/ ~a.rating.none /\ a.rating.val \notin {5 * k : k \in 1..10}

SearchRequests(requests) == SelectSeq(requests, LAMBDA r : r.for = "search")

\* C21: a FilmSearch constructed with an invalid year, decade, genre, country,
\* language or sort_by, or with a year and a decade, and a UserRated called with
\* an invalid year or decade, genre, service or rating, raises, and no request
\* of that search has been sent.
C21_InvalidArgumentsRejected ==
    /\ (scenario = "newsearch" /\ fs.pc # "new" /\ SearchArgsInvalid(fs.args)) =>
           (fs.pc = "raised" /\ fs.requests = <<>>)
    /\ (scenario = "newrated" /\ ur.called /\ RatedArgsInvalid(ur.args)) =>
           (ur.pc = "raised" /\ SearchRequests(ur.requests) = <<>>)

(***************************************************************************)
(* Properties of the Bayesian estimate                                     *)
(***************************************************************************)
\* C22: when ratings are moved from a bucket to a higher bucket and the total
\* stays, the Bayesian estimate does not fall: an estimate that was above a
\* rating is not below that rating afterwards.
C22_EstimateMonotone ==
    (scenario = "bayes" /\ fi.pc = "returned" /\ fi.before = "above") =>
        fi.verdict # "below"

(***************************************************************************)
(* Properties of the batches of FilmSearch.__call__                        *)
(***************************************************************************)
\* the record pages requested so far (0 is the request of the page count)
PageRequests(f) == SelectSeq(f.requests, LAMBDA p : p # 0)

\* the pages requested so far are startPage, startPage + 1, ... and lie
\* below end_page; a call that returned after its batches requested all of
\* [startPage, end_page)
BatchesInOrder ==
    (scenario = "search" /\ fs.pc # "call") =>
        /\ PageRequests(fs) = IdRun(fs.startPage, fs.startPage + Len(PageRequests(fs)) - 1)
        /\ fs.startPage + Len(PageRequests(fs)) <= Max(fs.end_page, fs.startPage)
        /\ fs.pc = "done" => PageRequests(fs) = IdRun(fs.startPage, fs.end_page - 1)

RatedLastPage(limit, num_pages) ==
    Max(1, Min(CeilDiv(limit, FilmsPerRatedPage), num_pages))

\* C24: UserRated.__scrape_rated comes to an end for every limit >= 0 and
\* every page count >= 1, and requests no page beyond
\* max(1, min(ceil(limit/18), numPages)).
C24_NoPageBeyondEnd ==
    (scenario = "rated" /\ ur.pc \in {"loop", "fetch", "done"}) =>
        \A k \in 1..Len(ur.requests) :
            ur.requests[k] <= RatedLastPage(ur.limit, ur.num_pages)

(***************************************************************************)
(* Properties of the page loop of LetterboxdList.entries                   *)
(***************************************************************************)
\* C25: for a list that reports more than 100 entries, LetterboxdList.entries
\* comes to an end after finitely many requests and returns exactly
\* num_entries entries, whatever the pages hold (an empty page, fewer or more
\* entries than reported).
C25_ReturnsReportedEntries ==
    /\ (scenario = "list" /\ le.pc = "done" /\ le.num_entries > EntriesPerListPage) =>
           Len(le.result) = le.num_entries
    /\ (scenario = "list" /\ le.pc = "loop" /\ le.num_entries > EntriesPerListPage) =>
           le.i <= CeilDiv(le.num_entries, EntriesPerListPage) + 1

(***************************************************************************)
(* Properties of FilmSearch.num_pages                                      *)
(***************************************************************************)
\* the least number of pages of `per` records that hold `total` records
LeastPages(total, per) == CeilDiv(total, per)

\* C26: FilmSearch.num_pages is the least number of pages of 72 records that
\* hold all the films (0 when there are none), so a collection of the whole
\* search requests no page beyond the last page that has records.
C26_NumPagesIsLeast ==
    (scenario = "search" /\ fs.pc \in {"batch", "scrape", "done"} /\ fs.percent = 100) =>
        /\ fs.num_pages = LeastPages(fs.numFilms, FilmsPerSearchPage)
        /\ \A k \in 1..Len(fs.requests) :
               fs.requests[k] <= LeastPages(fs.numFilms, FilmsPerSearchPage)

(***************************************************************************)
(* Properties of MyList.clear                                              *)
(***************************************************************************)
\* the list was public and had no entries when clear was called
WasPublicAndEmpty(m) == m.before.public /\ m.before.entries = <<>>

\* C27: MyList.clear submits no update with public = true and no entries,
\* unless the list was public and empty already.  A public list with entries
\* is first made private by an update of its own, which keeps the entries;
\* the update without entries follows.  After clear the list has no entries
\* and is private.
C27_ClearNeverPublishesEmpty ==
    (scenario = "clear" /\ ~WasPublicAndEmpty(ml)) =>
        /\ \A k \in 1..Len(ml.posts) :
               ~(ml.posts[k].publicList = "true" /\ ml.posts[k].entries = <<>>)
        /\ (ml.before.public /\ Len(ml.posts) >= 1) =>
               /\ ml.posts[1].publicList = "false"
               /\ ml.posts[1].entries = ml.before.entries
        /\ (ml.before.public /\ Len(ml.posts) >= 2) =>
               /\ ml.posts[2].publicList = "false"
               /\ ml.posts[2].entries = <<>>
        /\ ml.pc = "done" =>
               /\ ml.remote.entries = <<>> /\ ~ml.remote.public
               /\ ml.soup = ml.remote
               /\ Len(ml.posts) = IF ml.before.public THEN 2 ELSE 1

\* clear returned on a list that was public and had entries
C27_Witness ==
    /\ scenario = "clear" /\ ml.pc = "done"
    /\ ml.before.public /\ ml.before.entries # <<>>
    /\ Len(ml.posts) = 2


(***************************************************************************)
(* Properties of MyList.update called with an unknown key                  *)
(***************************************************************************)
\* C28: MyList.update called with a name that is no attribute of the list
\* raises before any request that changes the list: the list on the site,
\* the loaded snapshot and the name of the list are as they were.
C28_UnknownKeyChangesNothing ==
    (scenario = "update" /\ ml.args.unknown /\ ml.pc # "call") =>
        /\ ml.pc = "raised" /\ ml.error = "KeyError"
        /\ ml.posts = <<>>
        /\ ml.remote = ml.before
        /\ ml.soup = ml.before
        /\ ml.user_defined_name = ml.before.name

\* update(entries=..., <unknown>=...) with entries other than the list's raised
C28_Witness ==
    /\ scenario = "update" /\ ml.pc = "raised" /\ ml.args.unknown
    /\ "entries" \in ml.args.has
    /\ ml.args.val["entries"] # ml.before.entries

(***************************************************************************)
(* Properties of MyList.remove_duplicates                                  *)
(***************************************************************************)
\* the entries without those whose film id came earlier in the list
FirstOccurrences(entries) ==
    LET first == SelectSeq([k \in 1..Len(entries) |-> k],
                           LAMBDA k : \A j \in 1..(k - 1) :
                                         entries[j].filmId # entries[k].filmId)
    IN  [n \in 1..Len(first) |-> entries[first[n]]]

\* C29: constructing a MyList on a list that holds a film id more than once
\* removes the later duplicates only: what is saved holds each id once, in the
\* order of first occurrence, each entry with its review; on a list without
\* duplicates no update is sent.
C29_OnlyLaterDuplicatesRemoved ==
    scenario = "dedupe" =>
        /\ NoDupKeys(ml.before.entries) => ml.posts = <<>>
        /\ \A k \in 1..Len(ml.posts) :
               ml.posts[k].entries = FirstOccurrences(ml.before.entries)

(***************************************************************************)
(* Properties of FilmInfo.is_good                                          *)
(***************************************************************************)
\* C30: FilmInfo.is_good called with its default arguments (fallback 5,
\* cutoff 5) returns False for a film with fewer ratings than the cutoff, a
\* film without ratings included: a film is good only when the slanted mean
\* of ratings it has reaches 3.5.
C30_FewRatingsNotGood ==
    (/\ scenario = "ratings" /\ fi.pc = "done" /\ fi.fn = "is_good"
     /\ fi.fallback = 5 /\ fi.cutoff = 5
     /\ NumRatings(fi.ratings) < fi.cutoff) =>
        fi.result = BoolV(FALSE)

====
